---- MODULE Spec2Model ----
(***************************************************************************)
(* Model of pkg/combine (agentexec): the gitignore-style ignore engine,    *)
(* the directory traversal and single-file skip check, the tree renderer   *)
(* and the concurrent worker pipeline of CombineFiles.                     *)
(*                                                                         *)
(* Strings are sequences of one-character strings, so that the glob to     *)
(* regular-expression rewriting and the matching are computed character by *)
(* character, as the Go code does.                                         *)
(***************************************************************************)
EXTENDS Integers, Sequences, FiniteSets, TLC

(***************************************************************************)
(* String helpers (package strings).                                       *)
(***************************************************************************)

HasPrefix(s, p) == Len(s) >= Len(p) /\ SubSeq(s, 1, Len(p)) = p

HasSuffix(s, p) == Len(s) >= Len(p) /\ SubSeq(s, Len(s) - Len(p) + 1, Len(s)) = p

TrimPrefix(s, p) == IF HasPrefix(s, p) THEN SubSeq(s, Len(p) + 1, Len(s)) ELSE s

RECURSIVE TrimRight(_, _)
TrimRight(s, cutset) ==
    IF s # << >> /\ s[Len(s)] \in cutset
    THEN TrimRight(SubSeq(s, 1, Len(s) - 1), cutset)
    ELSE s

RECURSIVE TrimLeft(_, _)
TrimLeft(s, cutset) ==
    IF s # << >> /\ s[1] \in cutset THEN TrimLeft(Tail(s), cutset) ELSE s

WhiteSpace == {" ", "\t", "\n", "\r"}

TrimSpace(s) == TrimLeft(TrimRight(s, WhiteSpace), WhiteSpace)

\* strings.ReplaceAll: leftmost, non-overlapping occurrences of a non-empty old
RECURSIVE ReplaceAll(_, _, _)
ReplaceAll(s, old, new) ==
    IF Len(s) < Len(old) THEN s
    ELSE IF SubSeq(s, 1, Len(old)) = old
         THEN new \o ReplaceAll(SubSeq(s, Len(old) + 1, Len(s)), old, new)
         ELSE << s[1] >> \o ReplaceAll(Tail(s), old, new)

(***************************************************************************)
(* Regular expressions (package regexp), restricted to the syntax that the *)
(* rule compiler emits: literals, backslash escapes of punctuation, ".",   *)
(* negated classes "[^...]", groups with alternation, "^", "$" and the     *)
(* postfix operators "*", "+", "?".  A match is computed as the set of     *)
(* text offsets (0..Len(text)) that a prefix of the expression can reach.  *)
(***************************************************************************)

Quantifiers == {"*", "+", "?"}

\* index of the "]" closing the class opened at re[i], 0 when missing
RECURSIVE ClassEnd(_, _)
ClassEnd(re, j) ==
    IF j > Len(re) THEN 0
    ELSE IF re[j] = "]" THEN j
    ELSE ClassEnd(re, j + 1)

\* index of the ")" closing a group, scanning from j at nesting depth;
\* 0 when the group is never closed
RECURSIVE ScanClose(_, _, _)
ScanClose(re, j, depth) ==
    IF j > Len(re) THEN 0
    ELSE IF re[j] = "\\" THEN ScanClose(re, j + 2, depth)
    ELSE IF re[j] = "[" THEN
        IF ClassEnd(re, j + 1) = 0 THEN 0 ELSE ScanClose(re, ClassEnd(re, j + 1) + 1, depth)
    ELSE IF re[j] = "(" THEN ScanClose(re, j + 1, depth + 1)
    ELSE IF re[j] = ")" THEN
        IF depth = 0 THEN j ELSE ScanClose(re, j + 1, depth - 1)
    ELSE ScanClose(re, j + 1, depth)

\* index of the first "|" of re[j..hi] outside every group, 0 when none
RECURSIVE TopBar(_, _, _)
TopBar(re, j, hi) ==
    IF j > hi THEN 0
    ELSE IF re[j] = "|" THEN j
    ELSE IF re[j] = "\\" THEN TopBar(re, j + 2, hi)
    ELSE IF re[j] = "[" THEN TopBar(re, ClassEnd(re, j + 1) + 1, hi)
    ELSE IF re[j] = "(" THEN TopBar(re, ScanClose(re, j + 1, 0) + 1, hi)
    ELSE TopBar(re, j + 1, hi)

\* regexp.Compile succeeds: escapes complete, classes closed, groups balanced,
\* every postfix operator has an operand that is not itself a repetition
RECURSIVE WellFormed(_, _, _, _)
WellFormed(re, j, depth, operand) ==
    IF j > Len(re) THEN depth = 0
    ELSE IF re[j] = "\\" THEN j < Len(re) /\ WellFormed(re, j + 2, depth, TRUE)
    ELSE IF re[j] = "[" THEN
        ClassEnd(re, j + 1) # 0 /\ WellFormed(re, ClassEnd(re, j + 1) + 1, depth, TRUE)
    ELSE IF re[j] = "(" THEN WellFormed(re, j + 1, depth + 1, FALSE)
    ELSE IF re[j] = ")" THEN depth > 0 /\ WellFormed(re, j + 1, depth - 1, TRUE)
    ELSE IF re[j] = "|" THEN WellFormed(re, j + 1, depth, FALSE)
    ELSE IF re[j] \in Quantifiers THEN operand /\ WellFormed(re, j + 1, depth, FALSE)
    ELSE IF re[j] \in {"^", "$"} THEN WellFormed(re, j + 1, depth, FALSE)
    ELSE WellFormed(re, j + 1, depth, TRUE)

\* number of characters of the atom that starts at re[i]
AtomLen(re, i) ==
    IF re[i] = "\\" THEN 2
    ELSE IF re[i] = "[" THEN ClassEnd(re, i + 1) - i + 1
    ELSE IF re[i] = "(" THEN ScanClose(re, i + 1, 0) - i + 1
    ELSE 1

\* the characters listed in the negated class "[^...]" that starts at re[i]
ClassChars(re, i) == { re[k] : k \in (i + 2)..(ClassEnd(re, i + 1) - 1) }

RECURSIVE AltEnds(_, _, _, _, _)
RECURSIVE ConcatEnds(_, _, _, _, _)
RECURSIVE StarEnds(_, _, _, _)

\* offsets reached from an offset of S by one match of the atom at re[i]
AtomStep(re, i, S, text) ==
    LET n == Len(text)
        Next1(ok(_)) == { p + 1 : p \in { q \in S : q < n /\ ok(text[q + 1]) } }
    IN  IF re[i] = "\\" THEN LET lit(c) == c = re[i + 1] IN Next1(lit)
        ELSE IF re[i] = "[" THEN
            LET notin(c) == c \notin ClassChars(re, i) IN Next1(notin)
        ELSE IF re[i] = "(" THEN AltEnds(re, i + 1, i + AtomLen(re, i) - 2, S, text)
        ELSE IF re[i] = "." THEN LET any(c) == c # "\n" IN Next1(any)
        ELSE IF re[i] = "^" THEN { p \in S : p = 0 }
        ELSE IF re[i] = "$" THEN { p \in S : p = n }
        ELSE LET lit(c) == c = re[i] IN Next1(lit)

\* offsets reached by zero or more matches of the atom at re[i]
StarEnds(re, i, S, text) ==
    LET T == S \cup AtomStep(re, i, S, text)
    IN  IF T = S THEN S ELSE StarEnds(re, i, T, text)

\* offsets reached by the concatenation re[i..hi]
ConcatEnds(re, i, hi, S, text) ==
    IF i > hi \/ S = {} THEN S
    ELSE LET a == AtomLen(re, i)
             q == IF i + a <= hi /\ re[i + a] \in Quantifiers THEN re[i + a] ELSE ""
             T == IF q = "*" THEN StarEnds(re, i, S, text)
                  ELSE IF q = "+" THEN StarEnds(re, i, AtomStep(re, i, S, text), text)
                  ELSE IF q = "?" THEN S \cup AtomStep(re, i, S, text)
                  ELSE AtomStep(re, i, S, text)
         IN  ConcatEnds(re, i + a + (IF q = "" THEN 0 ELSE 1), hi, T, text)

\* offsets reached by the alternation re[lo..hi]
AltEnds(re, lo, hi, S, text) ==
    LET b == TopBar(re, lo, hi)
    IN  IF b = 0 THEN ConcatEnds(re, lo, hi, S, text)
        ELSE ConcatEnds(re, lo, b - 1, S, text) \cup AltEnds(re, b + 1, hi, S, text)

\* (*regexp.Regexp).MatchString: the expression matches somewhere in text
MatchString(re, text) == AltEnds(re, 1, Len(re), 0..Len(text), text) # {}

(***************************************************************************)
(* Rule compiler: parsePatternLine and its rewriting steps.                *)
(***************************************************************************)

\* wildcardDirPattern `[^/]\*/`
wildcardDirPattern(s) ==
    \E i \in 1..(Len(s) - 2) : s[i] # "/" /\ s[i + 1] = "*" /\ s[i + 2] = "/"

specialChars == << ".", "+", "(", ")", "|", "^", "$", "[", "]", "{", "}" >>

RECURSIVE escapeFrom(_, _)
escapeFrom(pattern, k) ==
    IF k > Len(specialChars) THEN pattern
    ELSE escapeFrom(ReplaceAll(pattern, << specialChars[k] >>, << "\\", specialChars[k] >>),
                    k + 1)

escapeSpecialChars(pattern) == escapeFrom(pattern, 1)

handleDoubleStarPatterns(pattern) ==
    LET p1 == ReplaceAll(pattern, << "/", "*", "*", "/" >>,
                         << "(", "/", "|", "/", ".", "+", "/", ")" >>)
        p2 == IF HasSuffix(p1, << "/", "*", "*" >>)
              THEN SubSeq(p1, 1, Len(p1) - 3) \o << "(", "/", ".", "*", ")", "?" >>
              ELSE p1
        p3 == IF HasPrefix(p2, << "*", "*", "/" >>)
              THEN << "(", ".", "*", "/", ")", "?" >> \o SubSeq(p2, 4, Len(p2))
              ELSE p2
    IN  p3

wildcardToRegex(pattern) ==
    ReplaceAll(ReplaceAll(pattern, << "*" >>, << "[", "^", "/", "]", "*" >>),
               << "?" >>, << "." >>)

anchorPattern(pattern, originalPattern) ==
    LET tail == IF HasSuffix(originalPattern, << "/" >>)
                THEN pattern \o << "(", "|", ".", "*", ")", "$" >>
                ELSE pattern \o << "(", "|", "/", ".", "*", ")", "$" >>
    IN  IF HasPrefix(tail, << "/" >>)
        THEN << "^" >> \o tail
        ELSE << "^", "(", "|", ".", "*", "/", ")" >> \o tail

\* the regular expression text that parsePatternLine hands to regexp.Compile
\* for a pattern from which the negation mark has been stripped
regexOf(trimmed) ==
    LET unesc == IF HasPrefix(trimmed, << "\\", "#" >>) \/ HasPrefix(trimmed, << "\\", "!" >>)
                 THEN Tail(trimmed) ELSE trimmed
        rooted == IF wildcardDirPattern(unesc) /\ ~HasPrefix(unesc, << "/" >>)
                  THEN << "/" >> \o unesc ELSE unesc
    IN  anchorPattern(wildcardToRegex(handleDoubleStarPatterns(escapeSpecialChars(rooted))),
                      rooted)

\* parsePatternLine: [ok |-> FALSE] stands for the nil pattern
parsePatternLine(line) ==
    LET trimmedLine == TrimRight(line, {"\r", "\n"})
        spaced == TrimSpace(trimmedLine)
        negate == HasPrefix(spaced, << "!" >>)
        body == TrimPrefix(spaced, << "!" >>)
        re == regexOf(body)
    IN  IF trimmedLine = << >> \/ HasPrefix(trimmedLine, << "#" >>)
        THEN [ok |-> FALSE, Pattern |-> << >>, Negate |-> FALSE]
        ELSE IF ~WellFormed(re, 1, 0, FALSE)
        THEN [ok |-> FALSE, Pattern |-> << >>, Negate |-> FALSE]
        ELSE [ok |-> TRUE, Pattern |-> re, Negate |-> negate]

(***************************************************************************)
(* Rule set: GitIgnore.patterns, a sequence of IgnorePattern records.      *)
(***************************************************************************)

\* os.PathSeparator of the build
Separator == "/"

\* normalizePath: filepath.ToSlash
normalizePath(p) == ReplaceAll(p, << Separator >>, << "/" >>)

\* the loop of CompileIgnoreLines from the i-th line on (i counts from 1, the
\* code's index is i - 1)
RECURSIVE compileLinesFrom(_, _, _)

\* a loop that ends at the first line that yields no pattern
compileLinesUntilFailure(patterns, lines, i) ==
    IF i > Len(lines) THEN patterns
    ELSE LET r == parsePatternLine(lines[i])
             ip == [Pattern |-> r.Pattern, Negate |-> r.Negate,
                    LineNo |-> Len(patterns) + (i - 1) + 1, Line |-> lines[i]]
         IN  IF r.ok THEN compileLinesFrom(Append(patterns, ip), lines, i + 1)
             ELSE patterns

compileLinesFrom(patterns, lines, i) ==
    IF i > Len(lines) THEN patterns
    ELSE LET r == parsePatternLine(lines[i])
             ip == [Pattern |-> r.Pattern, Negate |-> r.Negate,
                    LineNo |-> Len(patterns) + (i - 1) + 1, Line |-> lines[i]]
         IN  compileLinesFrom(IF r.ok THEN Append(patterns, ip) ELSE patterns, lines, i + 1)

CompileIgnoreLines(patterns, lines) == compileLinesFrom(patterns, lines, 1)

\* strings.Split(s, "\n")
RECURSIVE SplitLines(_)
SplitLines(s) ==
    IF \A k \in 1..Len(s) : s[k] # "\n" THEN << s >>
    ELSE LET k == CHOOSE i \in 1..Len(s) : s[i] = "\n" /\ \A j \in 1..(i - 1) : s[j] # "\n"
         IN  << SubSeq(s, 1, k - 1) >> \o SplitLines(SubSeq(s, k + 1, Len(s)))

\* the loop of CompileIgnoreFile from the i-th line of the file on
RECURSIVE compileFileFrom(_, _, _)
compileFileFrom(patterns, lines, i) ==
    IF i > Len(lines) THEN patterns
    ELSE LET r == parsePatternLine(lines[i])
             ip == [Pattern |-> r.Pattern, Negate |-> r.Negate,
                    LineNo |-> (i - 1) + 1, Line |-> lines[i]]
         IN  compileFileFrom(IF r.ok THEN Append(patterns, ip) ELSE patterns, lines, i + 1)

\* CompileIgnoreFile on the content of a file that was read
CompileIgnoreFile(patterns, content) == compileFileFrom(patterns, SplitLines(content), 1)

\* a scan that takes every matching rule as an exclusion, negated or not
verdictIgnoringNegate(pattern, matched) == TRUE

\* the verdict the scan keeps after a rule matched
verdictOf(pattern, matched) == IF pattern.Negate THEN FALSE ELSE TRUE

\* the loop of MatchesPathWithPattern from the k-th rule on, with the verdict
\* and the index of the deciding rule so far (0 stands for nil)
RECURSIVE scanFrom(_, _, _, _, _)

\* a scan that stops at the first matching rule
scanFirstMatch(patterns, normalizedPath, k, matched, matchedPattern) ==
    IF k > Len(patterns) THEN [matched |-> matched, matchedPattern |-> matchedPattern]
    ELSE IF MatchString(patterns[k].Pattern, normalizedPath)
         THEN [matched |-> verdictOf(patterns[k], matched), matchedPattern |-> k]
         ELSE scanFrom(patterns, normalizedPath, k + 1, matched, matchedPattern)

scanFrom(patterns, normalizedPath, k, matched, matchedPattern) ==
    IF k > Len(patterns) THEN [matched |-> matched, matchedPattern |-> matchedPattern]
    ELSE IF MatchString(patterns[k].Pattern, normalizedPath)
         THEN scanFrom(patterns, normalizedPath, k + 1, verdictOf(patterns[k], matched), k)
         ELSE scanFrom(patterns, normalizedPath, k + 1, matched, matchedPattern)

MatchesPathWithPattern(patterns, path) ==
    scanFrom(patterns, normalizePath(path), 1, FALSE, 0)

MatchesPath(patterns, path) == MatchesPathWithPattern(patterns, path).matched

(***************************************************************************)
(* Inputs of the rule engine: pattern lines and relative paths.            *)
(***************************************************************************)

L_buildDir == <<"b", "u", "i", "l", "d", "/">>
L_notKeep == <<"!", "b", "u", "i", "l", "d", "/", "k", "e", "e", "p", ".", "t", "x", "t">>
L_starLog == <<"*", ".", "l", "o", "g">>
L_dsLog == <<"*", "*", "/", "*", ".", "l", "o", "g">>
L_rootFoo == <<"/", "f", "o", "o">>
L_foo == <<"f", "o", "o">>
L_notALog == <<"!", "a", ".", "l", "o", "g">>
L_bad == <<"a", "\\">>
P_build == <<"b", "u", "i", "l", "d">>
P_keep == <<"b", "u", "i", "l", "d", "/", "k", "e", "e", "p", ".", "t", "x", "t">>
P_other == <<"b", "u", "i", "l", "d", "/", "o", "t", "h", "e", "r", ".", "t", "x", "t">>
P_buildX == <<"b", "u", "i", "l", "d", "/", "x">>
P_buildAB == <<"b", "u", "i", "l", "d", "/", "a", "/", "b">>
P_aLog == <<"a", ".", "l", "o", "g">>
P_xyaLog == <<"x", "/", "y", "/", "a", ".", "l", "o", "g">>
P_foo == <<"f", "o", "o">>
P_aFoo == <<"a", "/", "f", "o", "o">>
P_fooA == <<"f", "o", "o", "/", "a">>
P_aTxt == <<"a", ".", "t", "x", "t">>

\* most rules a rule set holds in the rule-engine specification
MaxRules == 2

PatternLines == { L_buildDir, L_notKeep, L_starLog, L_dsLog, L_rootFoo, L_foo, L_notALog }

QueryPaths == { P_build, P_keep, P_other, P_buildX, P_buildAB, P_aLog, P_xyaLog,
                P_foo, P_aFoo, P_fooA, P_aTxt }

\* the argument lists of one CompileIgnoreLines call
LineLists ==
    { << l >> : l \in PatternLines }
        \cup { << L_buildDir, L_notKeep >>, << L_starLog, L_notALog >>, << L_bad, L_starLog >> }

(***************************************************************************)
(* State.                                                                  *)
(***************************************************************************)

VARIABLES
    gi,             \* GitIgnore.patterns
    src,            \* per rule of gi, where it was loaded from
    op,             \* the last call: "new", "load", "compile", "match" or "sniff"
    lines,          \* the lines handed to the last load or compile call
    path,           \* argument of the last call if it was a query, else << >>
    matched,        \* its first result
    matchedPattern, \* its second result, as an index into gi (0 for nil)
    args,           \* Arguments: Paths, MaxFileSizeKB, MaxWorkers, IgnorePatterns
    ignoreFile,     \* ./.combineignore: state "absent", "unreadable" or "ok", and content
    unreadable,     \* files on which os.ReadFile fails in ProcessSingleFile
    faulty,         \* entries on which a traversal call fails, with the call
    outputDir,      \* directory of args.Output: "ok", "uncreatable" or "unwritable"
    decision,       \* answer to the binary-file prompt, "none" before
    pc,             \* position of the coordinator (ExecuteWithArgs / CombineFiles)
    idx,            \* index of the coordinator's current loop
    perPath,        \* per requested path, what its loop iteration collected
    allFilesToProcess,
    allBinaryFiles,
    jobs,           \* channel of file paths
    jobsClosed,
    results,        \* channel of FileContent records
    resultsClosed,
    wstate,         \* per worker: "idle" (at the range), "busy" or "exited"
    wfile,          \* per worker: the file it took
    wg,             \* sync.WaitGroup counter
    collector,      \* result collecting goroutine: "none", "running" or "done"
    combinedContents,
    treeFile,       \* content written to args.Tree, << "none" >> before
    outFile,        \* content written to args.Output
    err,            \* return value of ExecuteWithArgs: "nil" or an error
    fileData,       \* bytes of the file handed to isBinaryFile
    isBinary,       \* its result
    cwdDirs         \* relative paths that name a directory of the working
                    \* directory at the moment

ivars == << gi, src, op, lines, path, matched, matchedPattern >>

evars == << fileData, isBinary, cwdDirs >>

rvars == << evars, args, ignoreFile, unreadable, faulty, outputDir, decision, pc, idx, perPath,
            allFilesToProcess,
            allBinaryFiles, jobs, jobsClosed, results, resultsClosed, wstate, wfile, wg,
            collector, combinedContents, treeFile, outFile, err >>

vars == << gi, src, op, lines, path, matched, matchedPattern, args, ignoreFile, unreadable,
           faulty, outputDir, decision, pc, idx,
           perPath, allFilesToProcess, allBinaryFiles, jobs, jobsClosed, results,
           resultsClosed, wstate, wfile, wg, collector, combinedContents, treeFile,
           outFile, err, fileData, isBinary, cwdDirs >>

NotWritten == [written |-> FALSE, tree |-> << >>, sections |-> << >>]

\* no file has been handed to isBinaryFile
NoSniff == fileData = << >> /\ isBinary = FALSE

\* the run's variables before anything has run
RunIdle ==
    /\ decision = "none"
    /\ pc = "load"
    /\ idx = 1
    /\ perPath = << >>
    /\ allFilesToProcess = << >>
    /\ allBinaryFiles = << >>
    /\ jobs = << >>
    /\ jobsClosed = FALSE
    /\ results = << >>
    /\ resultsClosed = FALSE
    /\ wstate = << >>
    /\ wfile = << >>
    /\ wg = 0
    /\ collector = "none"
    /\ combinedContents = << >>
    /\ treeFile = NotWritten
    /\ outFile = NotWritten
    /\ err = "nil"

(***************************************************************************)
(* Rule-engine specification: a rule set is made by LoadIgnoreFiles or     *)
(* NewGitIgnore, extended by CompileIgnoreLines calls and queried by       *)
(* MatchesPathWithPattern.                                                 *)
(***************************************************************************)

\* NewGitIgnore
InitIgnore ==
    /\ gi = << >>
    /\ src = << >>
    /\ op = "new"
    /\ lines = << >>
    /\ path = << >>
    /\ matched = FALSE
    /\ matchedPattern = 0
    /\ args = [Paths |-> << >>, MaxFileSizeKB |-> 0, MaxWorkers |-> 0, IgnorePatterns |-> << >>]
    /\ ignoreFile = [state |-> "absent", content |-> << >>]
    /\ unreadable = {}
    /\ faulty = {}
    /\ outputDir = "ok"
    /\ RunIdle
    /\ NoSniff
    /\ cwdDirs = {}

DoCompileIgnoreLines ==
    \E ls \in LineLists :
        /\ Len(CompileIgnoreLines(gi, ls)) <= MaxRules
        /\ gi' = CompileIgnoreLines(gi, ls)
        /\ lines' = ls
        /\ src' = src \o [k \in 1..(Len(gi') - Len(gi)) |-> "cli"]
        /\ op' = "compile"
        /\ path' = << >>
        /\ matched' = FALSE
        /\ matchedPattern' = 0
        /\ UNCHANGED rvars

\* a query that looks the path up in the working directory and, as for a
\* directory name, appends a slash to the name of an existing directory
DoMatchesPathOfEntry ==
    \E p \in QueryPaths :
        LET r == MatchesPathWithPattern(gi, IF p \in cwdDirs THEN p \o << "/" >> ELSE p)
        IN  /\ path' = p
            /\ matched' = r.matched
            /\ matchedPattern' = r.matchedPattern
            /\ op' = "match"
            /\ UNCHANGED << gi, src, lines >>
            /\ UNCHANGED rvars

DoMatchesPath ==
    \E p \in QueryPaths :
        LET r == MatchesPathWithPattern(gi, p)
        IN  /\ path' = p
            /\ matched' = r.matched
            /\ matchedPattern' = r.matchedPattern
            /\ op' = "match"
            /\ UNCHANGED << gi, src, lines >>
            /\ UNCHANGED rvars

\* no file at the path, or no path given
NoFile == [state |-> "absent", content |-> << >>]

\* a loader that reads the local file before the global file
LoadIgnoreFilesLocalFirst(localFile, globalFile) ==
    LET failed == [ok |-> FALSE, patterns |-> << >>, src |-> << >>]
        local == IF localFile.state = "ok"
                 THEN CompileIgnoreFile(<< >>, localFile.content)
                 ELSE << >>
        global == IF globalFile.state = "ok"
                  THEN CompileIgnoreFile(local, globalFile.content)
                  ELSE local
    IN  IF localFile.state = "unreadable" THEN failed
        ELSE IF globalFile.state = "unreadable" THEN failed
        ELSE [ok |-> TRUE, patterns |-> global,
              src |-> [k \in 1..Len(global) |->
                          IF k <= Len(local) THEN "local" ELSE "global"]]

\* LoadIgnoreFiles with a local path given: the global file, then the local
\* file; a file that does not exist is skipped, one that cannot be read is
\* an error.  src tells for each rule which file it came from.
LoadIgnoreFiles(localFile, globalFile) ==
    LET failed == [ok |-> FALSE, patterns |-> << >>, src |-> << >>]
        global == IF globalFile.state = "ok"
                  THEN CompileIgnoreFile(<< >>, globalFile.content)
                  ELSE << >>
        local == IF localFile.state = "ok"
                 THEN CompileIgnoreFile(global, localFile.content)
                 ELSE global
    IN  IF globalFile.state = "unreadable" THEN failed
        ELSE IF localFile.state = "unreadable" THEN failed
        ELSE [ok |-> TRUE, patterns |-> local,
              src |-> [k \in 1..Len(local) |->
                          IF k <= Len(global) THEN "global" ELSE "local"]]

\* contents of ignore files
FC_starLog == <<"*", ".", "l", "o", "g">>
FC_notALog == <<"!", "a", ".", "l", "o", "g">>
FC_commentBlankStarLog == <<"#", "c", "\n", " ", "\n", "*", ".", "l", "o", "g">>
FC_badStarLog == <<"a", "\\", "\n", "*", ".", "l", "o", "g">>

GlobalFiles ==
    { [state |-> "absent", content |-> << >>],
      [state |-> "unreadable", content |-> << >>],
      [state |-> "ok", content |-> FC_starLog],
      [state |-> "ok", content |-> FC_commentBlankStarLog] }

LocalFiles ==
    { [state |-> "absent", content |-> << >>],
      [state |-> "ok", content |-> FC_notALog],
      [state |-> "ok", content |-> FC_badStarLog] }

\* LoadIgnoreFiles makes the rule set, so it is the first call
DoLoadIgnoreFiles ==
    \E globalFile \in GlobalFiles, localFile \in LocalFiles :
        LET loaded == LoadIgnoreFiles(localFile, globalFile)
        IN  /\ op = "new"
            /\ Len(loaded.patterns) <= MaxRules
            /\ gi' = loaded.patterns
            /\ src' = loaded.src
            /\ op' = IF loaded.ok THEN "load" ELSE "loadfailed"
            /\ lines' = IF loaded.ok
                        THEN (IF globalFile.state = "ok"
                              THEN SplitLines(globalFile.content) ELSE << >>)
                             \o (IF localFile.state = "ok"
                                 THEN SplitLines(localFile.content) ELSE << >>)
                        ELSE << >>
            /\ UNCHANGED << path, matched, matchedPattern >>
            /\ UNCHANGED rvars

NextIgnore == DoLoadIgnoreFiles \/ DoCompileIgnoreLines \/ DoMatchesPath

SpecIgnore == InitIgnore /\ [][NextIgnore]_vars

(***************************************************************************)
(* Query specification: a rule set made by one CompileIgnoreLines call is  *)
(* queried while the directories of the working directory come and go.     *)
(***************************************************************************)

L_fooDoubleStar == <<"f", "o", "o", "/", "*", "*">>

QueryLineLists == LineLists \cup { << L_fooDoubleStar >> }

\* what the working directory may hold: nothing, or directories named as
\* two of the queried paths
DirectorySets == { {}, { P_build, P_foo } }

\* NewGitIgnore followed by one CompileIgnoreLines call
InitQuery ==
    /\ \E ls \in QueryLineLists :
          /\ gi = CompileIgnoreLines(<< >>, ls)
          /\ src = [k \in 1..Len(gi) |-> "cli"]
          /\ lines = ls
    /\ op = "compile"
    /\ path = << >>
    /\ matched = FALSE
    /\ matchedPattern = 0
    /\ args = [Paths |-> << >>, MaxFileSizeKB |-> 0, MaxWorkers |-> 0, IgnorePatterns |-> << >>]
    /\ ignoreFile = [state |-> "absent", content |-> << >>]
    /\ unreadable = {}
    /\ faulty = {}
    /\ outputDir = "ok"
    /\ RunIdle
    /\ NoSniff
    /\ cwdDirs \in DirectorySets

\* the environment makes or removes directories, or the process changes its
\* working directory
ChangeDirectories ==
    /\ cwdDirs' \in DirectorySets \ { cwdDirs }
    /\ UNCHANGED << gi, src, op, lines, path, matched, matchedPattern, fileData, isBinary,
                    args, ignoreFile, unreadable, faulty, outputDir, decision, pc, idx,
                    perPath, allFilesToProcess, allBinaryFiles, jobs, jobsClosed, results,
                    resultsClosed, wstate, wfile, wg, collector, combinedContents,
                    treeFile, outFile, err >>

NextQuery == DoMatchesPath \/ ChangeDirectories

SpecQuery == InitQuery /\ [][NextQuery]_vars

(***************************************************************************)
(* Paths (package path/filepath, Unix build).                              *)
(***************************************************************************)

\* the characters of the model's strings in ascending byte order
Ascii ==
    <<"\t", "\n", "\r", " ", "!", "#", "$", "(", ")", "*", "+", "-", ".",
       "/", "0", "1", "2", "3", "4", "5", "6", "7", "8", "9", "?", "A", "B", "C",
       "D", "E", "F", "G", "H", "I", "J", "K", "L", "M", "N", "O", "P", "Q", "R",
       "S", "T", "U", "V", "W", "X", "Y", "Z", "[", "\\", "]", "^", "_", "a", "b",
       "c", "d", "e", "f", "g", "h", "i", "j", "k", "l", "m", "n", "o", "p", "q",
       "r", "s", "t", "u", "v", "w", "x", "y", "z", "{", "|", "}">>

Code(c) == CHOOSE k \in 1..Len(Ascii) : Ascii[k] = c

\* the Go string comparison a < b: bytewise lexicographic
RECURSIVE Less(_, _)
Less(a, b) ==
    IF b = << >> THEN FALSE
    ELSE IF a = << >> THEN TRUE
    ELSE IF a[1] = b[1] THEN Less(Tail(a), Tail(b))
    ELSE Code(a[1]) < Code(b[1])

upperCase == <<"A", "B", "C", "D", "E", "F", "G", "H", "I", "J", "K", "L", "M", "N",
       "O", "P", "Q", "R", "S", "T", "U", "V", "W", "X", "Y", "Z">>

lowerCase == <<"a", "b", "c", "d", "e", "f", "g", "h", "i", "j", "k", "l", "m", "n",
       "o", "p", "q", "r", "s", "t", "u", "v", "w", "x", "y", "z">>

\* strings.ToLower
ToLower(s) ==
    [k \in 1..Len(s) |->
        IF \E u \in 1..Len(upperCase) : upperCase[u] = s[k]
        THEN lowerCase[CHOOSE u \in 1..Len(upperCase) : upperCase[u] = s[k]]
        ELSE s[k]]

\* index of the last "/" of p, 0 when there is none
LastSlash(p) ==
    IF \E k \in 1..Len(p) : p[k] = "/"
    THEN CHOOSE k \in 1..Len(p) : p[k] = "/" /\ \A j \in (k + 1)..Len(p) : p[j] # "/"
    ELSE 0

D_w == <<"/", "w">>
D_p == <<"/", "w", "/", "p">>
D_build == <<"/", "w", "/", "p", "/", "b", "u", "i", "l", "d">>
F_a == <<"/", "w", "/", "p", "/", "a", ".", "t", "x", "t">>
F_b == <<"/", "w", "/", "p", "/", "b", ".", "b", "i", "n">>
F_big == <<"/", "w", "/", "p", "/", "b", "i", "g", ".", "t", "x", "t">>
F_keep == <<"/", "w", "/", "p", "/", "b", "u", "i", "l", "d", "/", "k", "e", "e", "p", ".", "t", "x", "t">>
F_c == <<"/", "w", "/", "p", "/", "c", ".", "l", "o", "g">>
F_none == <<"/", "w", "/", "n", "o", "n", "e">>
R_p == <<"p">>
L_starBin == <<"*", ".", "b", "i", "n">>
L_build == <<"b", "u", "i", "l", "d">>
N_dotdot == <<".", ".">>
N_dot == <<".">>

\* filepath.Dir of a clean path
Dir(p) ==
    IF LastSlash(p) = 0 THEN N_dot
    ELSE IF LastSlash(p) = 1 THEN << "/" >>
    ELSE SubSeq(p, 1, LastSlash(p) - 1)

\* filepath.Base of a clean path
Base(p) == SubSeq(p, LastSlash(p) + 1, Len(p))

\* filepath.Ext: the suffix of the last element from its last "."
Ext(p) ==
    LET b == Base(p)
    IN  IF \E k \in 1..Len(b) : b[k] = "."
        THEN SubSeq(b, CHOOSE k \in 1..Len(b) : b[k] = "." /\ \A j \in (k + 1)..Len(b) : b[j] # ".",
                    Len(b))
        ELSE << >>

IsAbs(p) == HasPrefix(p, << "/" >>)

\* filepath.Join of two clean elements
Join(a, b) == IF a = << "/" >> THEN a \o b ELSE a \o << "/" >> \o b

\* the process's working directory
Cwd == D_w

\* filepath.Abs of a clean path
Abs(p) == IF IsAbs(p) THEN p ELSE Join(Cwd, p)

\* the elements of the clean path p from index i on, where the element being
\* read starts at index lo
RECURSIVE ElementsFrom(_, _, _)
ElementsFrom(p, lo, i) ==
    IF i > Len(p) THEN << SubSeq(p, lo, Len(p)) >>
    ELSE IF p[i] = "/" THEN << SubSeq(p, lo, i - 1) >> \o ElementsFrom(p, i + 1, i + 1)
    ELSE ElementsFrom(p, lo, i + 1)

\* the elements of a clean path; an absolute path has a leading empty element
Elements(p) == ElementsFrom(p, 1, 1)

RECURSIVE JoinElements(_)
JoinElements(es) ==
    IF es = << >> THEN N_dot
    ELSE IF Len(es) = 1 THEN es[1]
    ELSE es[1] \o << "/" >> \o JoinElements(Tail(es))

\* number of leading elements that b and t share, counting on from n
RECURSIVE CommonFrom(_, _, _)
CommonFrom(b, t, n) ==
    IF n < Len(b) /\ n < Len(t) /\ b[n + 1] = t[n + 1] THEN CommonFrom(b, t, n + 1) ELSE n

\* the path that leads from the directory with elements b to the entry with
\* elements t
RelOfElements(b, t) ==
    LET common == CommonFrom(b, t, 0)
    IN  JoinElements([k \in 1..(Len(b) - common) |-> N_dotdot] \o SubSeq(t, common + 1, Len(t)))

\* filepath.Rel of clean paths: [ok |-> FALSE] when one path is absolute and
\* the other is not
Rel(basepath, targpath) ==
    IF IsAbs(basepath) # IsAbs(targpath)
    THEN [ok |-> FALSE, path |-> << >>]
    ELSE [ok |-> TRUE,
          path |-> CHOOSE rel \in
                       { RelOfElements(b, t) :
                           b \in { IF basepath = N_dot THEN << >> ELSE Elements(basepath) },
                           t \in { IF targpath = N_dot THEN << >> ELSE Elements(targpath) } } :
                       TRUE]

(***************************************************************************)
(* Binary detection.                                                       *)
(***************************************************************************)

\* bytes isBinaryFile reads from the start of a file
SniffLen == 512

isPrintable(b) == (b >= 32 /\ b <= 126) \/ b = 10 \/ b = 13 \/ b = 9

\* isBinaryFile on the bytes of an opened file; float64(n)/float64(len) > 0.3
\* is n * 10 > 3 * len for the lengths a 512-byte buffer can have
\* a classifier that takes a file with exactly 30% non-printable bytes for binary
isBinaryFileAtThreshold(data) ==
    LET n == IF Len(data) < SniffLen THEN Len(data) ELSE SniffLen
        buffer == SubSeq(data, 1, n)
        nonPrintable == Cardinality({ k \in 1..n : ~isPrintable(buffer[k]) })
    IN  IF \E k \in 1..n : buffer[k] = 0 THEN TRUE
        ELSE IF n = 0 THEN FALSE
        ELSE nonPrintable * 10 >= 3 * n

isBinaryFile(data) ==
    LET n == IF Len(data) < SniffLen THEN Len(data) ELSE SniffLen
        buffer == SubSeq(data, 1, n)
        nonPrintable == Cardinality({ k \in 1..n : ~isPrintable(buffer[k]) })
    IN  IF \E k \in 1..n : buffer[k] = 0 THEN TRUE
        ELSE IF n = 0 THEN FALSE
        ELSE nonPrintable * 10 > 3 * n

(***************************************************************************)
(* Binary-detection specification: isBinaryFile is applied to one file.    *)
(* The file holds a run of non-printable bytes, a run of printable bytes   *)
(* and possibly a NUL byte, before or after them; a long file holds these  *)
(* after a filler that ends short of, at, or past the end of the buffer.   *)
(***************************************************************************)

MaxPrintable == 7
MaxNonPrintable == 4

NUL == 0

PrintableBytes == {32, 126, 9, 10, 13}
NonPrintableBytes == {31, 127}

Run(n, b) == [k \in 1..n |-> b]

FileContents ==
    { z.front \o Run(np, nb) \o Run(pr, pb) \o z.back :
        np \in 0..MaxNonPrintable, nb \in NonPrintableBytes,
        pr \in 0..MaxPrintable, pb \in PrintableBytes,
        z \in { [front |-> << >>, back |-> << >>],
                [front |-> << NUL >>, back |-> << >>],
                [front |-> << >>, back |-> << NUL >>] } }
    \cup
    { Run(fill, 65) \o Run(np, 31) \o z :
        fill \in { SniffLen - (3 * SniffLen) \div 10 - 1, SniffLen - 1, SniffLen },
        np \in { 1, (3 * SniffLen) \div 10, (3 * SniffLen) \div 10 + 1 },
        z \in { << >>, << NUL >> } }

InitBinary ==
    /\ gi = << >>
    /\ src = << >>
    /\ op = "new"
    /\ lines = << >>
    /\ path = << >>
    /\ matched = FALSE
    /\ matchedPattern = 0
    /\ args = [Paths |-> << >>, MaxFileSizeKB |-> 0, MaxWorkers |-> 0, IgnorePatterns |-> << >>]
    /\ ignoreFile = [state |-> "absent", content |-> << >>]
    /\ unreadable = {}
    /\ faulty = {}
    /\ outputDir = "ok"
    /\ RunIdle
    /\ fileData \in FileContents
    /\ isBinary = FALSE
    /\ cwdDirs = {}

\* isBinaryFile(filePath) on a file that opens and reads without error
DoIsBinaryFile ==
    /\ op = "new"
    /\ isBinary' = isBinaryFile(fileData)
    /\ op' = "sniff"
    /\ UNCHANGED << gi, src, lines, path, matched, matchedPattern, fileData, cwdDirs,
                    args, ignoreFile, unreadable, faulty, outputDir, decision, pc, idx,
                    perPath, allFilesToProcess, allBinaryFiles, jobs, jobsClosed, results,
                    resultsClosed, wstate, wfile, wg, collector, combinedContents,
                    treeFile, outFile, err >>

NextBinary == DoIsBinaryFile

SpecBinary == InitBinary /\ [][NextBinary]_vars

binaryExtensions == {
    <<".", "e", "x", "e">>,
    <<".", "d", "l", "l">>,
    <<".", "s", "o">>,
    <<".", "d", "y", "l", "i", "b">>,
    <<".", "b", "i", "n">>,
    <<".", "o", "b", "j">>,
    <<".", "o">>,
    <<".", "a">>,
    <<".", "l", "i", "b">>,
    <<".", "p", "y", "c">>,
    <<".", "p", "y", "o">>,
    <<".", "c", "l", "a", "s", "s">>,
    <<".", "j", "a", "r">>,
    <<".", "w", "a", "r">>,
    <<".", "e", "a", "r">>,
    <<".", "p", "n", "g">>,
    <<".", "j", "p", "g">>,
    <<".", "j", "p", "e", "g">>,
    <<".", "g", "i", "f">>,
    <<".", "b", "m", "p">>,
    <<".", "i", "c", "o">>,
    <<".", "p", "d", "f">>,
    <<".", "z", "i", "p">>,
    <<".", "t", "a", "r">>,
    <<".", "g", "z">>,
    <<".", "7", "z">>,
    <<".", "r", "a", "r">>,
    <<".", "d", "b">>,
    <<".", "s", "q", "l", "i", "t", "e">>,
    <<".", "m", "p", "3">>,
    <<".", "m", "p", "4">>,
    <<".", "a", "v", "i">>,
    <<".", "m", "o", "v">>,
    <<".", "w", "m", "v">>,
    <<".", "f", "l", "a", "c">>,
    <<".", "m", "4", "a">>,
    <<".", "m", "k", "v">>,
    <<".", "w", "a", "v">>,
    <<".", "i", "s", "o">>,
    <<".", "d", "m", "g">>,
    <<".", "p", "k", "g">>,
    <<".", "d", "e", "b">>,
    <<".", "r", "p", "m">>,
    <<".", "m", "s", "i">>,
    <<".", "a", "p", "k">>,
    <<".", "i", "p", "a">>,
    <<".", "s", "v", "g">>,
    <<".", "w", "e", "b", "p">>,
    <<".", "h", "e", "i", "c">>,
    <<".", "p", "s", "d">>,
    <<".", "t", "t", "f">>,
    <<".", "o", "t", "f">>,
    <<".", "w", "o", "f", "f">>,
    <<".", "w", "o", "f", "f", "2">>,
    <<".", "e", "o", "t">>,
    <<".", "d", "b", "f">>,
    <<".", "m", "d", "b">>,
    <<".", "a", "c", "c", "d", "b">>,
    <<".", "b", "a", "k">>,
    <<".", "t", "m", "p">>,
    <<".", "l", "o", "g">>,
    <<".", "c", "a", "c", "h", "e">>,
    <<".", "s", "w", "p">>,
    <<".", "s", "w", "o">>,
    <<".", "D", "S", "_", "S", "t", "o", "r", "e">> }

isCommonBinaryExtension(p) == ToLower(Ext(p)) \in binaryExtensions

(***************************************************************************)
(* The file system the run reads: a directory /w/p with text files, a file *)
(* holding NUL bytes, a text file with a known-binary extension, a file    *)
(* larger than one kilobyte and a subdirectory.                            *)
(***************************************************************************)

\* "hi\n"
TextData == << 104, 105, 10 >>

\* size in bytes of the large file (one byte more than a kilobyte)
BigSize == 1 * 1024 + 1

FS ==
    { [path |-> D_p,     isDir |-> TRUE,  data |-> << >>],
      [path |-> F_a,     isDir |-> FALSE, data |-> TextData],
      [path |-> F_b,     isDir |-> FALSE, data |-> << 0, 1 >>],
      [path |-> F_big,   isDir |-> FALSE, data |-> [k \in 1..BigSize |-> 97]],
      [path |-> D_build, isDir |-> TRUE,  data |-> << >>],
      [path |-> F_keep,  isDir |-> FALSE, data |-> TextData],
      [path |-> F_c,     isDir |-> FALSE, data |-> TextData] }

\* os.Stat succeeds
Exists(p) == \E e \in FS : e.path = p

Entry(p) == CHOOSE e \in FS : e.path = p

\* fs.FileInfo.Size
Size(e) == Len(e.data)

\* os.ReadDir: the entries of a directory sorted by file name
RECURSIVE SortByName(_)
SortByName(S) ==
    IF S = {} THEN << >>
    ELSE LET m == CHOOSE x \in S : \A y \in S : ~Less(Base(y.path), Base(x.path))
         IN  << m >> \o SortByName(S \ {m})

ReadDir(d) == SortByName({ e \in FS : e.path # d /\ Dir(e.path) = d })

(***************************************************************************)
(* Traversal and the single-file skip check.                               *)
(***************************************************************************)

RECURSIVE walk(_, _, _, _, _)
RECURSIVE walkList(_, _, _, _, _)

\* the call on entry p fails: "readdir" is os.ReadDir on a directory, "sniff"
\* is isBinaryFile on a file, "info" is DirEntry.Info on a file
Fails(p, call) == [path |-> p, call |-> call] \in faulty

\* a callback that takes a file whose sniff failed for a text file
collectFileIgnoringError(e, maxFileSizeKB, collected) ==
    IF ~Fails(e.path, "sniff") /\ isBinaryFile(e.data)
    THEN [collected EXCEPT !.Binary = Append(@, e.path)]
    ELSE IF Size(e) > maxFileSizeKB * 1024
    THEN collected
    ELSE [collected EXCEPT !.Regular = Append(@, e.path)]

\* the WalkDir callback of TraverseAndCollectFiles for a file entry that the
\* rule set does not match; a failing isBinaryFile or Info returns nil
collectFile(e, maxFileSizeKB, collected) ==
    IF Fails(e.path, "sniff")
    THEN collected
    ELSE IF isBinaryFile(e.data)
    THEN [collected EXCEPT !.Binary = Append(@, e.path)]
    ELSE IF Fails(e.path, "info")
    THEN collected
    ELSE IF Size(e) > maxFileSizeKB * 1024
    THEN collected
    ELSE [collected EXCEPT !.Regular = Append(@, e.path)]

\* a walk whose callback returns nil for a matched directory, so the walk
\* descends into it
walkWithoutSkipDir(e, parentDir, patterns, maxFileSizeKB, collected) ==
    LET relPath == normalizePath(Rel(parentDir, e.path).path)
        called == [collected EXCEPT !.Visited = Append(@, e.path)]
    IN  IF e.isDir
        THEN IF Fails(e.path, "readdir")
             THEN [called EXCEPT !.Visited = Append(@, e.path)]
             ELSE walkList(ReadDir(e.path), parentDir, patterns, maxFileSizeKB, called)
        ELSE IF ~MatchesPath(patterns, relPath)
             THEN collectFile(e, maxFileSizeKB, called)
             ELSE called

\* filepath.WalkDir below entry e with the callback of TraverseAndCollectFiles:
\* Visited logs the entries the callback is called with; a matched directory
\* returns SkipDir, so nothing beneath it is visited; when os.ReadDir fails on
\* a directory the callback is called on it a second time, with the error,
\* returns nil, and the walk goes on without the directory's entries
walk(e, parentDir, patterns, maxFileSizeKB, collected) ==
    LET relPath == normalizePath(Rel(parentDir, e.path).path)
        called == [collected EXCEPT !.Visited = Append(@, e.path)]
    IN  IF e.isDir
        THEN IF MatchesPath(patterns, relPath)
             THEN called
             ELSE IF Fails(e.path, "readdir")
             THEN [called EXCEPT !.Visited = Append(@, e.path)]
             ELSE walkList(ReadDir(e.path), parentDir, patterns, maxFileSizeKB, called)
        ELSE IF ~MatchesPath(patterns, relPath)
             THEN collectFile(e, maxFileSizeKB, called)
             ELSE called

walkList(entries, parentDir, patterns, maxFileSizeKB, collected) ==
    IF entries = << >> THEN collected
    ELSE walkList(Tail(entries), parentDir, patterns, maxFileSizeKB,
                  walk(entries[1], parentDir, patterns, maxFileSizeKB, collected))

TraverseAndCollectFiles(parentDir, patterns, maxFileSizeKB) ==
    walk(Entry(parentDir), parentDir, patterns, maxFileSizeKB,
         [Regular |-> << >>, Binary |-> << >>, Visited |-> << >>])

shouldSkipFile(p, patterns, maxFileSizeKB) ==
    LET relPath == normalizePath(Rel(Dir(p), p).path)
    IN  IF MatchesPath(patterns, relPath) THEN TRUE
        ELSE IF isCommonBinaryExtension(p) THEN TRUE
        ELSE IF Size(Entry(p)) > maxFileSizeKB * 1024 THEN TRUE
        ELSE IF Fails(p, "sniff") THEN TRUE
        ELSE IF isBinaryFile(Entry(p).data) THEN TRUE
        ELSE FALSE

\* one iteration of the collection loop of CombineFiles for a requested path:
\* the files it adds to allFilesToProcess and to allBinaryFiles
collectPath(p, patterns, maxFileSizeKB) ==
    LET absPath == Abs(p)
    IN  IF ~Exists(absPath) THEN [Regular |-> << >>, Binary |-> << >>]
        ELSE IF Entry(absPath).isDir
        THEN TraverseAndCollectFiles(absPath, patterns, maxFileSizeKB)
        ELSE IF ~shouldSkipFile(absPath, patterns, maxFileSizeKB)
        THEN [Regular |-> << absPath >>, Binary |-> << >>]
        ELSE IF Fails(absPath, "sniff")
        THEN [Regular |-> << >>, Binary |-> << >>]
        ELSE IF isBinaryFile(Entry(absPath).data)
        THEN [Regular |-> << >>, Binary |-> << absPath >>]
        ELSE [Regular |-> << >>, Binary |-> << >>]

(***************************************************************************)
(* Tree rendering.  A rendered line is a record: the indentation prefix as *)
(* a sequence of "pipe" (vertical bar and three spaces) and "blank" (four  *)
(* spaces), the connector "tee" or "elbow", the entry name, whether the    *)
(* line ends in "/", and the relative path the line depicts.               *)
(***************************************************************************)

\* the comparison of the sort in GenerateTreeStructure
treeLess(a, b) ==
    IF a.isDir # b.isDir THEN a.isDir
    ELSE Less(ToLower(Base(a.path)), ToLower(Base(b.path)))

\* sort.Slice with treeLess on the entries of a directory
RECURSIVE treeSort(_)
treeSort(S) ==
    IF S = {} THEN << >>
    ELSE LET m == CHOOSE x \in S : \A y \in S : ~treeLess(y, x)
         IN  << m >> \o treeSort(S \ {m})

RECURSIVE GenerateTreeStructure(_, _, _, _)
RECURSIVE treeLoop(_, _, _, _, _, _)

\* the loop of GenerateTreeStructure from the i-th sorted entry on
treeLoop(entries, i, parentDir, patterns, prefix, output) ==
    IF i > Len(entries) THEN output
    ELSE LET entry == entries[i]
             last == i = Len(entries)
             connector == IF last THEN "elbow" ELSE "tee"
             extension == IF last THEN "blank" ELSE "pipe"
             relPath == normalizePath(Rel(parentDir, entry.path).path)
             line == [prefix |-> prefix, connector |-> connector,
                      name |-> Base(entry.path), isDir |-> entry.isDir, rel |-> relPath]
         IN  IF entry.isDir
             THEN IF MatchesPath(patterns, relPath)
                  THEN treeLoop(entries, i + 1, parentDir, patterns, prefix, output)
                  ELSE treeLoop(entries, i + 1, parentDir, patterns, prefix,
                                Append(output, line)
                                \o GenerateTreeStructure(entry.path, parentDir, patterns,
                                                         Append(prefix, extension)))
             ELSE IF ~MatchesPath(patterns, relPath)
                  THEN treeLoop(entries, i + 1, parentDir, patterns, prefix,
                                Append(output, line))
                  ELSE treeLoop(entries, i + 1, parentDir, patterns, prefix, output)

GenerateTreeStructure(directory, parentDir, patterns, prefix) ==
    IF Fails(directory, "readdir") THEN << >>
    ELSE treeLoop(treeSort({ e \in FS : e.path # directory /\ Dir(e.path) = directory }),
                  1, parentDir, patterns, prefix, << >>)

\* the tree text CombineFiles builds: per requested path that exists, a root
\* line (the absolute path and "/" for a directory, the base name for a file)
\* followed by the rendered lines of a directory
RECURSIVE treeOf(_, _)
treeOf(paths, patterns) ==
    IF paths = << >> THEN << >>
    ELSE LET absPath == Abs(paths[1])
             rest == treeOf(Tail(paths), patterns)
         IN  IF ~Exists(absPath) THEN rest
             ELSE IF Entry(absPath).isDir
             THEN << [root |-> absPath, isDir |-> TRUE,
                      lines |-> GenerateTreeStructure(absPath, absPath, patterns, << >>)] >>
                  \o rest
             ELSE << [root |-> normalizePath(Rel(Dir(absPath), absPath).path),
                      isDir |-> FALSE, lines |-> << >>] >> \o rest

(***************************************************************************)
(* The run: ExecuteWithArgs and CombineFiles with the worker goroutines    *)
(* and the result collecting goroutine.                                    *)
(***************************************************************************)

\* content of an ignore file with the single line "*.bin"
IgnoreContent == <<"*", ".", "b", "i", "n", "\n">>

\* most workers a run is configured with
MaxWorkerCount == 2

\* runtime.NumCPU of the machine
NumCPU == 2

PathLists ==
    { << D_p >>, << F_b >>, << D_p, F_c >>, << D_p, F_a >>, << R_p >>, << F_none >> }

CommandLinePatterns ==
    { << >>, << L_starBin >>, << L_buildDir, L_notKeep >>, << L_build, L_notKeep >>,
      << L_starLog >> }

IgnoreFiles ==
    { [state |-> "absent", content |-> << >>],
      [state |-> "unreadable", content |-> << >>],
      [state |-> "ok", content |-> IgnoreContent] }

\* nothing fails
NoFailure == [unreadable |-> {}, faulty |-> {}, outputDir |-> "ok"]

\* what fails in the run: a read in a worker, one call of the traversal, or
\* the output destination; a run with a failure is one of /w/p with no rule
Failures ==
    { NoFailure,
      [unreadable |-> {F_a}, faulty |-> {}, outputDir |-> "ok"],
      [unreadable |-> {}, faulty |-> {[path |-> F_a, call |-> "sniff"]}, outputDir |-> "ok"],
      [unreadable |-> {}, faulty |-> {[path |-> F_keep, call |-> "info"]}, outputDir |-> "ok"],
      [unreadable |-> {}, faulty |-> {[path |-> D_build, call |-> "readdir"]},
       outputDir |-> "ok"],
      [unreadable |-> {}, faulty |-> {}, outputDir |-> "uncreatable"],
      [unreadable |-> {}, faulty |-> {}, outputDir |-> "unwritable"] }

Init ==
    /\ gi = << >>
    /\ src = << >>
    /\ op = "new"
    /\ lines = << >>
    /\ path = << >>
    /\ matched = FALSE
    /\ matchedPattern = 0
    /\ \E f \in Failures :
          /\ unreadable = f.unreadable
          /\ faulty = f.faulty
          /\ outputDir = f.outputDir
          /\ IF f = NoFailure
             THEN /\ args \in [Paths : PathLists, MaxFileSizeKB : {0, 1},
                               MaxWorkers : 0..MaxWorkerCount,
                               IgnorePatterns : CommandLinePatterns]
                  /\ ignoreFile \in IgnoreFiles
             ELSE /\ args \in [Paths : {<< D_p >>}, MaxFileSizeKB : {1},
                               MaxWorkers : 0..MaxWorkerCount, IgnorePatterns : {<< >>}]
                  /\ ignoreFile = NoFile
    /\ RunIdle
    /\ NoSniff
    /\ cwdDirs = {}

\* ExecuteWithArgs up to the call of CombineFiles: the output directories,
\* LoadIgnoreFiles with the local file ".combineignore" and no global file,
\* then the command-line patterns
Load ==
    /\ pc = "load"
    /\ LET loaded == LoadIgnoreFiles(ignoreFile, NoFile)
           compiled == CompileIgnoreLines(loaded.patterns, args.IgnorePatterns)
       IN  IF outputDir = "uncreatable"
           THEN /\ err' = "failed to create output directory"
                /\ pc' = "done"
                /\ UNCHANGED << gi, src >>
           ELSE IF ~loaded.ok
           THEN /\ err' = "failed to load default ignore patterns"
                /\ pc' = "done"
                /\ UNCHANGED << gi, src >>
           ELSE /\ gi' = compiled
                /\ src' = loaded.src
                          \o [k \in 1..(Len(compiled) - Len(loaded.patterns)) |-> "cli"]
                /\ pc' = "collect"
                /\ UNCHANGED err
    /\ UNCHANGED << op, lines, path, matched, matchedPattern, evars, args, ignoreFile, unreadable,
                    faulty, outputDir, decision, idx, perPath, allFilesToProcess,
                    allBinaryFiles, jobs, jobsClosed, results, resultsClosed, wstate, wfile,
                    wg, collector, combinedContents, treeFile, outFile >>

\* an iteration that appends the command-line patterns to the rule set again
CollectPathAppendsPatterns ==
    /\ pc = "collect"
    /\ LET c == collectPath(args.Paths[idx], gi, args.MaxFileSizeKB)
       IN  /\ perPath' = Append(perPath, c)
           /\ allFilesToProcess' = allFilesToProcess \o c.Regular
           /\ allBinaryFiles' = allBinaryFiles \o c.Binary
    /\ gi' = CompileIgnoreLines(gi, args.IgnorePatterns)
    /\ IF idx = Len(args.Paths)
       THEN pc' = "confirm" /\ idx' = 1
       ELSE pc' = "collect" /\ idx' = idx + 1
    /\ UNCHANGED << src, op, lines, path, matched, matchedPattern, evars, args,
                    ignoreFile, unreadable, faulty, outputDir, jobs, jobsClosed, results, resultsClosed,
                    wstate, wfile, wg, collector, combinedContents, treeFile, outFile, err,
                    decision >>

\* one iteration of "for _, path := range args.Paths"
CollectPath ==
    /\ pc = "collect"
    /\ LET c == collectPath(args.Paths[idx], gi, args.MaxFileSizeKB)
       IN  /\ perPath' = Append(perPath, c)
           /\ allFilesToProcess' = allFilesToProcess \o c.Regular
           /\ allBinaryFiles' = allBinaryFiles \o c.Binary
    /\ IF idx = Len(args.Paths)
       THEN pc' = "confirm" /\ idx' = 1
       ELSE pc' = "collect" /\ idx' = idx + 1
    /\ UNCHANGED << gi, src, op, lines, path, matched, matchedPattern, evars, args,
                    ignoreFile, unreadable, faulty, outputDir, jobs, jobsClosed, results, resultsClosed,
                    wstate, wfile, wg, collector, combinedContents, treeFile, outFile, err,
                    decision >>

\* a run that asks but goes on whatever the answer is
ConfirmDisregarded ==
    /\ pc = "confirm"
    /\ IF allBinaryFiles = << >>
       THEN pc' = "start" /\ UNCHANGED << err, decision >>
       ELSE \E answer \in {"yes", "no", "error"} :
                /\ decision' = answer
                /\ IF answer = "error"
                   THEN pc' = "done" /\ err' = "failed to read user input"
                   ELSE pc' = "start" /\ UNCHANGED err
    /\ UNCHANGED << gi, src, op, lines, path, matched, matchedPattern, evars, args,
                    ignoreFile, unreadable, faulty, outputDir, idx, perPath, allFilesToProcess,
                    allBinaryFiles, jobs, jobsClosed, results, resultsClosed, wstate, wfile,
                    wg, collector, combinedContents, treeFile, outFile >>

\* the binary-file report and promptUser; answer is what the user types
Confirm ==
    /\ pc = "confirm"
    /\ IF allBinaryFiles = << >>
       THEN pc' = "start" /\ UNCHANGED << err, decision >>
       ELSE \E answer \in {"yes", "no", "error"} :
                /\ decision' = answer
                /\ IF answer = "error"
                   THEN pc' = "done" /\ err' = "failed to read user input"
                   ELSE IF answer = "no"
                   THEN pc' = "done" /\ UNCHANGED err
                   ELSE pc' = "start" /\ UNCHANGED err
    /\ UNCHANGED << gi, src, op, lines, path, matched, matchedPattern, evars, args,
                    ignoreFile, unreadable, faulty, outputDir, idx, perPath, allFilesToProcess,
                    allBinaryFiles, jobs, jobsClosed, results, resultsClosed, wstate, wfile,
                    wg, collector, combinedContents, treeFile, outFile >>

numWorkers == IF args.MaxWorkers <= 0 THEN NumCPU ELSE args.MaxWorkers

\* the empty-list check, the two channels and the worker goroutines
StartWorkers ==
    /\ pc = "start"
    /\ IF allFilesToProcess = << >>
       THEN /\ pc' = "done"
            /\ UNCHANGED << wstate, wfile, wg >>
       ELSE /\ pc' = "distribute"
            /\ wstate' = [w \in 1..numWorkers |-> "idle"]
            /\ wfile' = [w \in 1..numWorkers |-> << >>]
            /\ wg' = numWorkers
    /\ UNCHANGED << gi, src, op, lines, path, matched, matchedPattern, evars, args,
                    ignoreFile, unreadable, faulty, outputDir, idx, perPath, allFilesToProcess,
                    allBinaryFiles, jobs, jobsClosed, results, resultsClosed, collector,
                    combinedContents, treeFile, outFile, err, decision >>

\* capacity of the channels jobs and results
Capacity == Len(allFilesToProcess)

\* "jobs <- file", which blocks while the channel is full
SendJob ==
    /\ pc = "distribute"
    /\ idx <= Len(allFilesToProcess)
    /\ Len(jobs) < Capacity
    /\ jobs' = Append(jobs, allFilesToProcess[idx])
    /\ idx' = idx + 1
    /\ UNCHANGED << gi, src, op, lines, path, matched, matchedPattern, evars, args,
                    ignoreFile, unreadable, faulty, outputDir, pc, perPath, allFilesToProcess,
                    allBinaryFiles, jobsClosed, results, resultsClosed, wstate, wfile, wg,
                    collector, combinedContents, treeFile, outFile, err, decision >>

\* a coordinator that starts collecting without closing jobs
CloseJobsOmitted ==
    /\ pc = "distribute"
    /\ idx > Len(allFilesToProcess)
    /\ collector' = "running"
    /\ pc' = "wait"
    /\ UNCHANGED << gi, src, op, lines, path, matched, matchedPattern, evars, args,
                    ignoreFile, unreadable, faulty, outputDir, idx, perPath,
                    allFilesToProcess, allBinaryFiles, jobs, jobsClosed, results,
                    resultsClosed, wstate, wfile, wg, combinedContents, treeFile, outFile,
                    err, decision >>

\* close(jobs) and the start of the collecting goroutine
CloseJobs ==
    /\ pc = "distribute"
    /\ idx > Len(allFilesToProcess)
    /\ jobsClosed' = TRUE
    /\ collector' = "running"
    /\ pc' = "wait"
    /\ UNCHANGED << gi, src, op, lines, path, matched, matchedPattern, evars, args,
                    ignoreFile, unreadable, faulty, outputDir, idx, perPath, allFilesToProcess,
                    allBinaryFiles, jobs, results, resultsClosed, wstate, wfile, wg,
                    combinedContents, treeFile, outFile, err, decision >>

\* a receive that leaves the file on the queue
WorkerTakeKeeps(w) ==
    /\ wstate[w] = "idle"
    /\ jobs # << >>
    /\ wfile' = [wfile EXCEPT ![w] = Head(jobs)]
    /\ wstate' = [wstate EXCEPT ![w] = "busy"]
    /\ UNCHANGED << gi, src, op, lines, path, matched, matchedPattern, evars, args,
                    ignoreFile, unreadable, faulty, outputDir, pc, idx, perPath,
                    allFilesToProcess, allBinaryFiles, jobs, jobsClosed, results,
                    resultsClosed, wg, collector, combinedContents, treeFile, outFile, err,
                    decision >>

\* "for file := range jobs" receives a file
WorkerTake(w) ==
    /\ wstate[w] = "idle"
    /\ jobs # << >>
    /\ wfile' = [wfile EXCEPT ![w] = Head(jobs)]
    /\ jobs' = Tail(jobs)
    /\ wstate' = [wstate EXCEPT ![w] = "busy"]
    /\ UNCHANGED << gi, src, op, lines, path, matched, matchedPattern, evars, args,
                    ignoreFile, unreadable, faulty, outputDir, pc, idx, perPath, allFilesToProcess,
                    allBinaryFiles, jobsClosed, results, resultsClosed, wg, collector,
                    combinedContents, treeFile, outFile, err, decision >>

\* the directory record paths are relative to
parentDirOfRun == Dir(args.Paths[1])

\* the relative path of ProcessSingleFile, the file path itself when no
\* relative path can be made
relativePathOf(filePath, parentDir) ==
    CHOOSE relativePath \in
        { normalizePath(IF parentDir = << >> \/ ~rel.ok THEN filePath ELSE rel.path) :
            rel \in { Rel(parentDir, filePath) } } : TRUE

\* ProcessSingleFile; Content is the header, which shows the relative path,
\* followed by the bytes of the file
ProcessSingleFile(filePath, parentDir) ==
    IF filePath \in unreadable
    THEN [ok |-> FALSE, content |-> [Path |-> << >>, Content |-> << >>]]
    ELSE CHOOSE processed \in
             { [ok |-> TRUE,
                content |-> [Path |-> relativePath,
                             Content |-> [Source |-> relativePath,
                                          Data |-> Entry(filePath).data]]] :
                 relativePath \in { relativePathOf(filePath, parentDir) } } : TRUE

\* the worker read its file and sends the record, "results <- content",
\* which blocks while the channel is full
WorkerEmit(w) ==
    /\ wstate[w] = "busy"
    /\ Len(results) < Capacity
    /\ \E processed \in { ProcessSingleFile(wfile[w], parentDirOfRun) } :
          /\ processed.ok
          /\ results' = Append(results, processed.content)
    /\ wstate' = [wstate EXCEPT ![w] = "idle"]
    /\ UNCHANGED << gi, src, op, lines, path, matched, matchedPattern, evars, args,
                    ignoreFile, unreadable, faulty, outputDir, pc, idx, perPath, allFilesToProcess,
                    allBinaryFiles, jobs, jobsClosed, resultsClosed, wfile, wg, collector,
                    combinedContents, treeFile, outFile, err, decision >>

\* a worker that returns on the first error instead of continuing
WorkerFailReturns(w) ==
    /\ wstate[w] = "busy"
    /\ ~ProcessSingleFile(wfile[w], parentDirOfRun).ok
    /\ wstate' = [wstate EXCEPT ![w] = "exited"]
    /\ wg' = wg - 1
    /\ UNCHANGED << gi, src, op, lines, path, matched, matchedPattern, evars, args,
                    ignoreFile, unreadable, faulty, outputDir, pc, idx, perPath, allFilesToProcess,
                    allBinaryFiles, jobs, jobsClosed, results, resultsClosed, wfile,
                    collector, combinedContents, treeFile, outFile, err, decision >>

\* ProcessSingleFile returned an error: the worker logs it and continues
WorkerFail(w) ==
    /\ wstate[w] = "busy"
    /\ ~ProcessSingleFile(wfile[w], parentDirOfRun).ok
    /\ wstate' = [wstate EXCEPT ![w] = "idle"]
    /\ UNCHANGED << gi, src, op, lines, path, matched, matchedPattern, evars, args,
                    ignoreFile, unreadable, faulty, outputDir, pc, idx, perPath, allFilesToProcess,
                    allBinaryFiles, jobs, jobsClosed, results, resultsClosed, wfile, wg,
                    collector, combinedContents, treeFile, outFile, err, decision >>

\* the range over the closed, drained jobs channel ends; deferred wg.Done
WorkerExit(w) ==
    /\ wstate[w] = "idle"
    /\ jobs = << >>
    /\ jobsClosed
    /\ wstate' = [wstate EXCEPT ![w] = "exited"]
    /\ wg' = wg - 1
    /\ UNCHANGED << gi, src, op, lines, path, matched, matchedPattern, evars, args,
                    ignoreFile, unreadable, faulty, outputDir, pc, idx, perPath, allFilesToProcess,
                    allBinaryFiles, jobs, jobsClosed, results, resultsClosed, wfile,
                    collector, combinedContents, treeFile, outFile, err, decision >>

\* the collecting goroutine receives a record and appends it
CollectorReceive ==
    /\ collector = "running"
    /\ results # << >>
    /\ combinedContents' = Append(combinedContents, Head(results))
    /\ results' = Tail(results)
    /\ UNCHANGED << gi, src, op, lines, path, matched, matchedPattern, evars, args,
                    ignoreFile, unreadable, faulty, outputDir, pc, idx, perPath, allFilesToProcess,
                    allBinaryFiles, jobs, jobsClosed, resultsClosed, wstate, wfile, wg,
                    collector, treeFile, outFile, err, decision >>

\* a coordinator that closes results without waiting for the workers
WaitSkipped ==
    /\ pc = "wait"
    /\ resultsClosed' = TRUE
    /\ pc' = "join"
    /\ UNCHANGED << gi, src, op, lines, path, matched, matchedPattern, evars, args,
                    ignoreFile, unreadable, faulty, outputDir, idx, perPath, allFilesToProcess,
                    allBinaryFiles, jobs, jobsClosed, results, wstate, wfile, wg, collector,
                    combinedContents, treeFile, outFile, err, decision >>

\* wg.Wait returns; close(results)
WaitWorkers ==
    /\ pc = "wait"
    /\ wg = 0
    /\ resultsClosed' = TRUE
    /\ pc' = "join"
    /\ UNCHANGED << gi, src, op, lines, path, matched, matchedPattern, evars, args,
                    ignoreFile, unreadable, faulty, outputDir, idx, perPath, allFilesToProcess,
                    allBinaryFiles, jobs, jobsClosed, results, wstate, wfile, wg, collector,
                    combinedContents, treeFile, outFile, err, decision >>

\* the range over the closed, drained results channel ends and the collecting
\* goroutine hands over on the unbuffered channel done: "<-done"
JoinCollector ==
    /\ pc = "join"
    /\ collector = "running"
    /\ results = << >>
    /\ resultsClosed
    /\ collector' = "done"
    /\ pc' = "sort"
    /\ UNCHANGED << gi, src, op, lines, path, matched, matchedPattern, evars, args,
                    ignoreFile, unreadable, faulty, outputDir, idx, perPath, allFilesToProcess,
                    allBinaryFiles, jobs, jobsClosed, results, resultsClosed, wstate, wfile,
                    wg, combinedContents, treeFile, outFile, err, decision >>

\* insertion of a record into a sequence ordered by Path
RECURSIVE insertByPath(_, _)
insertByPath(sorted, r) ==
    IF sorted = << >> THEN << r >>
    ELSE IF Less(r.Path, sorted[1].Path) THEN << r >> \o sorted
    ELSE << sorted[1] >> \o insertByPath(Tail(sorted), r)

RECURSIVE sortFrom(_, _, _)
sortFrom(contents, k, sorted) ==
    IF k > Len(contents) THEN sorted
    ELSE sortFrom(contents, k + 1, insertByPath(sorted, contents[k]))

\* the records left in the order the collecting goroutine received them
sortSkipped(contents) == contents

\* sort.Slice(combinedContents, Path <)
sortByPath(contents) == sortFrom(contents, 1, << >>)

SortContents ==
    /\ pc = "sort"
    /\ combinedContents' = sortByPath(combinedContents)
    /\ pc' = "tree"
    /\ UNCHANGED << gi, src, op, lines, path, matched, matchedPattern, evars, args,
                    ignoreFile, unreadable, faulty, outputDir, idx, perPath, allFilesToProcess,
                    allBinaryFiles, jobs, jobsClosed, results, resultsClosed, wstate, wfile,
                    wg, collector, treeFile, outFile, err, decision >>

\* the tree is rendered and written to args.Tree
WriteTree ==
    /\ pc = "tree"
    /\ treeFile' = [written |-> TRUE, tree |-> treeOf(args.Paths, gi), sections |-> << >>]
    /\ pc' = "write"
    /\ UNCHANGED << gi, src, op, lines, path, matched, matchedPattern, evars, args,
                    ignoreFile, unreadable, faulty, outputDir, idx, perPath, allFilesToProcess,
                    allBinaryFiles, jobs, jobsClosed, results, resultsClosed, wstate, wfile,
                    wg, collector, combinedContents, outFile, err, decision >>

\* the records written without the tree content before them
WriteOutputOmitsTree ==
    /\ pc = "write"
    /\ IF outputDir = "unwritable"
       THEN /\ err' = "failed to create output file"
            /\ UNCHANGED outFile
       ELSE /\ outFile' = [written |-> TRUE, tree |-> << >>,
                           sections |-> [k \in 1..Len(combinedContents) |->
                                             combinedContents[k].Content]]
            /\ UNCHANGED err
    /\ pc' = "done"
    /\ UNCHANGED << gi, src, op, lines, path, matched, matchedPattern, evars, args,
                    ignoreFile, unreadable, faulty, outputDir, idx, perPath, allFilesToProcess,
                    allBinaryFiles, jobs, jobsClosed, results, resultsClosed, wstate, wfile,
                    wg, collector, combinedContents, treeFile, decision >>

\* os.Create of args.Output, which fails in a directory that cannot be
\* written; then the tree content is written to it, and the records after
\* the tree: outFile.tree is the head of the file and outFile.sections the
\* rest, in the order written
WriteOutput ==
    /\ pc = "write"
    /\ IF outputDir = "unwritable"
       THEN /\ err' = "failed to create output file"
            /\ UNCHANGED outFile
       ELSE /\ outFile' = [written |-> TRUE, tree |-> treeFile.tree,
                           sections |-> [k \in 1..Len(combinedContents) |->
                                             combinedContents[k].Content]]
            /\ UNCHANGED err
    /\ pc' = "done"
    /\ UNCHANGED << gi, src, op, lines, path, matched, matchedPattern, evars, args,
                    ignoreFile, unreadable, faulty, outputDir, idx, perPath, allFilesToProcess,
                    allBinaryFiles, jobs, jobsClosed, results, resultsClosed, wstate, wfile,
                    wg, collector, combinedContents, treeFile, decision >>

Workers == 1..Len(wstate)

Next ==
    \/ Load
    \/ CollectPath
    \/ Confirm
    \/ StartWorkers
    \/ SendJob
    \/ CloseJobs
    \/ \E w \in Workers : WorkerTake(w)
    \/ \E w \in Workers : WorkerEmit(w)
    \/ \E w \in Workers : WorkerFail(w)
    \/ \E w \in Workers : WorkerExit(w)
    \/ CollectorReceive
    \/ WaitWorkers
    \/ JoinCollector
    \/ SortContents
    \/ WriteTree
    \/ WriteOutput

Spec == Init /\ [][Next]_vars

\* a step of the worker pool: the coordinator from the first send to "<-done",
\* the workers and the collecting goroutine
PipelineStep ==
    \/ SendJob
    \/ CloseJobs
    \/ \E w \in Workers : WorkerTake(w)
    \/ \E w \in Workers : WorkerEmit(w)
    \/ \E w \in Workers : WorkerFail(w)
    \/ \E w \in Workers : WorkerExit(w)
    \/ CollectorReceive
    \/ WaitWorkers
    \/ JoinCollector

(***************************************************************************)
(* Worker-pool specification: the run from the point where the files are   *)
(* collected, for requested paths that are regular text files, with every  *)
(* worker count and every set of files that cannot be read.                *)
(***************************************************************************)

PoolPathLists ==
    { << F_a >>, << F_a, F_keep >>, << F_keep, F_a >>, << F_a, F_keep, F_a >> }

RECURSIVE regularOf(_)
regularOf(collected) ==
    IF collected = << >> THEN << >>
    ELSE collected[1].Regular \o regularOf(Tail(collected))

\* the state CombineFiles is in after the collection loop and the prompt
\* check, when no rule is loaded and no binary file was found
InitPool ==
    /\ gi = << >>
    /\ src = << >>
    /\ op = "new"
    /\ lines = << >>
    /\ path = << >>
    /\ matched = FALSE
    /\ matchedPattern = 0
    /\ NoSniff
    /\ cwdDirs = {}
    /\ args \in [Paths : PoolPathLists, MaxFileSizeKB : {1}, MaxWorkers : 0..MaxWorkerCount,
                 IgnorePatterns : {<< >>}]
    /\ ignoreFile = NoFile
    /\ unreadable \in SUBSET { F_a, F_keep }
    /\ faulty = {}
    /\ outputDir = "ok"
    /\ decision = "none"
    /\ pc = "start"
    /\ idx = 1
    /\ perPath = [k \in 1..Len(args.Paths) |-> collectPath(args.Paths[k], gi, args.MaxFileSizeKB)]
    /\ allFilesToProcess = regularOf(perPath)
    /\ allBinaryFiles = << >>
    /\ jobs = << >>
    /\ jobsClosed = FALSE
    /\ results = << >>
    /\ resultsClosed = FALSE
    /\ wstate = << >>
    /\ wfile = << >>
    /\ wg = 0
    /\ collector = "none"
    /\ combinedContents = << >>
    /\ treeFile = NotWritten
    /\ outFile = NotWritten
    /\ err = "nil"

NextPool == StartWorkers \/ PipelineStep \/ SortContents

PoolSpec == InitPool /\ [][NextPool]_vars

\* the scheduler does not leave a goroutine waiting forever at a step it can
\* take: the coordinator, some worker at each of its steps, the collector
PoolFairness ==
    /\ WF_vars(SendJob)
    /\ WF_vars(CloseJobs)
    /\ WF_vars(\E w \in Workers : WorkerTake(w))
    /\ WF_vars(\E w \in Workers : WorkerEmit(w))
    /\ WF_vars(\E w \in Workers : WorkerFail(w))
    /\ WF_vars(\E w \in Workers : WorkerExit(w))
    /\ WF_vars(CollectorReceive)
    /\ WF_vars(WaitWorkers)
    /\ WF_vars(JoinCollector)

FairPoolSpec == PoolSpec /\ PoolFairness

(***************************************************************************)
(* Properties of the rule engine.                                          *)
(***************************************************************************)

\* GitIgnore.Patterns: the original lines of the rules, in order
Patterns == [k \in 1..Len(gi) |-> gi[k].Line]

\* the rules whose matcher matches the last queried path
MatchingRules == { k \in 1..Len(gi) : MatchString(gi[k].Pattern, normalizePath(path)) }

LastOf(M) == CHOOSE k \in M : \A j \in M : j <= k

\* C1: last rule wins. After a query, the verdict is that of the LAST rule
\* whose matcher matches the path (true if that rule is not negated, false if
\* it is), the deciding rule is that last rule, and the verdict is false with
\* no deciding rule when no rule matches.
LastRuleWins ==
    op = "match" =>
        IF MatchingRules = {}
        THEN matched = FALSE /\ matchedPattern = 0
        ELSE /\ matchedPattern = LastOf(MatchingRules)
             /\ matched = ~gi[LastOf(MatchingRules)].Negate

\* a query in which a later matching rule overrides an earlier matching rule
LastRuleWinsWitness ==
    /\ op = "match"
    /\ \E j, k \in MatchingRules : j < k /\ k = LastOf(MatchingRules)
                                  /\ gi[j].Negate # gi[k].Negate

\* C2: negation is order-sensitive. With "build/" then "!build/keep.txt",
\* build/keep.txt is not matched and build/other.txt is matched; with the two
\* rules in the reverse order build/keep.txt is matched.
NegationOrderSensitive ==
    op = "match" =>
        /\ (Patterns = << L_buildDir, L_notKeep >> /\ path = P_keep) => ~matched
        /\ (Patterns = << L_buildDir, L_notKeep >> /\ path = P_other) => matched
        /\ (Patterns = << L_notKeep, L_buildDir >> /\ path = P_keep) => matched

\* build/keep.txt has been queried against "build/", "!build/keep.txt"
NegationOrderWitness ==
    op = "match" /\ Patterns = << L_buildDir, L_notKeep >> /\ path = P_keep /\ ~matched

\* a pattern line made of plain name characters and "/" only
IsLiteralLine(line) == \A i \in 1..Len(line) : line[i] \notin {"*", "?", "!", "#", "\\", " "}

\* C3: for a pattern ending in "/", the path equal to the directory it names
\* and every path beneath that directory classify as matched.
DirectoryPatternMatchesDirAndBelow ==
    ( /\ op = "match"
      /\ Len(gi) = 1
      /\ IsLiteralLine(gi[1].Line)
      /\ HasSuffix(gi[1].Line, << "/" >>)
      /\ ~HasPrefix(gi[1].Line, << "/" >>)
      /\ \/ path \o << "/" >> = gi[1].Line
         \/ HasPrefix(path, gi[1].Line) )
    => matched

\* C4: the rule compiled from "**/*.log" matches a.log and x/y/a.log.
LeadingDoubleStarAnyDepth ==
    (op = "match" /\ Patterns = << L_dsLog >> /\ path \in {P_aLog, P_xyaLog}) => matched

\* C5: "/foo" matches foo at the root and the paths beneath it but not a/foo;
\* "foo" matches at any depth.
RootAnchoring ==
    op = "match" =>
        /\ (Patterns = << L_rootFoo >> /\ path \in {P_foo, P_fooA}) => matched
        /\ (Patterns = << L_rootFoo >> /\ path = P_aFoo) => ~matched
        /\ (Patterns = << L_foo >> /\ path \in {P_foo, P_aFoo}) => matched

(***************************************************************************)
(* Properties of the run.                                                  *)
(***************************************************************************)

Range(seq) == { seq[k] : k \in 1..Len(seq) }

\* the run wrote the combined artifact
ArtifactWritten == pc = "done" /\ outFile.written

\* every requested path is an existing directory
DirectoryRoots ==
    \A i \in 1..Len(args.Paths) :
        Exists(Abs(args.Paths[i])) /\ Entry(Abs(args.Paths[i])).isDir

\* file f has a "Source:" record in the combined artifact
HasRecord(f) ==
    \E k \in 1..Len(outFile.sections) :
        outFile.sections[k].Source = relativePathOf(f, parentDirOfRun)

\* file f has a line in the rendered tree
HasTreeEntry(f) ==
    \E k \in 1..Len(outFile.tree) :
        /\ outFile.tree[k].isDir
        /\ \E n \in 1..Len(outFile.tree[k].lines) :
              /\ ~outFile.tree[k].lines[n].isDir
              /\ Join(outFile.tree[k].root, outFile.tree[k].lines[n].rel) = f

\* C6: tree/artifact agreement: when every requested root is a directory and
\* every file can be read, a file has a "Source:" record in the combined
\* artifact if and only if it has a line in the rendered tree
TreeArtifactAgreement ==
    (ArtifactWritten /\ DirectoryRoots /\ unreadable = {}) =>
        \A e \in FS : ~e.isDir => (HasRecord(e.path) <=> HasTreeEntry(e.path))

\* C7: the traversal and the single-file skip check decide alike: when a
\* directory and a file directly inside it are both requested, the traversal
\* of the directory puts the file in its regular list if and only if the
\* single-file check does not skip it
TraversalAgreesWithSkipCheck ==
    \A i, j \in 1..Len(perPath) :
        (/\ Exists(Abs(args.Paths[i]))
         /\ Entry(Abs(args.Paths[i])).isDir
         /\ Exists(Abs(args.Paths[j]))
         /\ ~Entry(Abs(args.Paths[j])).isDir
         /\ Dir(Abs(args.Paths[j])) = Abs(args.Paths[i]))
        => (Abs(args.Paths[j]) \in Range(perPath[i].Regular)
            <=> perPath[j].Regular = << Abs(args.Paths[j]) >>)

\* the path the rules are matched against for file f collected under the
\* i-th requested path: relative to the root for a directory, relative to
\* the file's own directory for a single file
ClassifiedPath(i, f) ==
    IF Entry(Abs(args.Paths[i])).isDir
    THEN normalizePath(Rel(Abs(args.Paths[i]), f).path)
    ELSE normalizePath(Rel(Dir(f), f).path)

\* C8: a file excluded by an ignore rule is in neither list: every file that
\* the collection of a requested path put in the regular or the binary list
\* has a relative path the rule set does not match
IgnoredNeverCollected ==
    \A i \in 1..Len(perPath) :
        \A f \in Range(perPath[i].Regular) \cup Range(perPath[i].Binary) :
            ~MatchesPath(gi, ClassifiedPath(i, f))

\* the number of positions of seq that hold x
Count(seq, x) == Cardinality({ k \in 1..Len(seq) : seq[k] = x })

\* the record a readable file contributes
SectionOf(f) == ProcessSingleFile(f, parentDirOfRun).content.Content

\* the files of the processing list that can be read
Readable == SelectSeq(allFilesToProcess, LAMBDA f : f \notin unreadable)

\* C9: concatenation determinism: whatever the worker count and the
\* interleaving, the records written are those of the readable files of the
\* list, each as often as the file is listed, in ascending order of path; the
\* list alone determines that sequence
ConcatenationDeterminism ==
    ArtifactWritten =>
        /\ Len(outFile.sections) = Len(Readable)
        /\ \A f \in Range(Readable) :
              Count(outFile.sections, SectionOf(f)) = Count(Readable, f)
        /\ \A k \in 1..(Len(outFile.sections) - 1) :
              ~Less(outFile.sections[k + 1].Source, outFile.sections[k].Source)

\* two workers ran and the artifact holds several records
ConcatenationDeterminismWitness ==
    /\ ArtifactWritten
    /\ Len(wstate) = 2
    /\ Len(outFile.sections) >= 3

\* C10: read-failure isolation: a worker has returned only when the job
\* queue is closed and drained, and a finished pipeline returns no error
\* (the output destination being writable), holds no record of a file that
\* could not be read and holds the record of every queued file that could
ReadFailureIsolation ==
    /\ \A w \in Workers : wstate[w] = "exited" => (jobsClosed /\ jobs = << >>)
    /\ collector = "done" =>
          /\ outputDir = "ok" => err = "nil"
          /\ \A f \in Range(allFilesToProcess) :
                IF f \in unreadable
                THEN \A k \in 1..Len(combinedContents) :
                         combinedContents[k].Path # relativePathOf(f, parentDirOfRun)
                ELSE \E k \in 1..Len(combinedContents) :
                         combinedContents[k] = ProcessSingleFile(f, parentDirOfRun).content

\* a single worker failed on the first queued file, went on, and the run
\* finished with the records of the other files
ReadFailureIsolationWitness ==
    /\ ArtifactWritten
    /\ err = "nil"
    /\ Len(wstate) = 1
    /\ allFilesToProcess # << >>
    /\ allFilesToProcess[1] \in unreadable
    /\ Len(outFile.sections) = Len(allFilesToProcess) - 1
    /\ Len(outFile.sections) >= 2

\* the coordinator is past the join: it sorts, renders the tree or writes
AfterJoin == pc \in {"sort", "tree", "write"} \/ treeFile.written \/ outFile.written

\* C11: join barrier: once the coordinator sorts or writes, the job queue is
\* empty, every worker has returned, the collector has received every record
\* and handed over; from then on no record is emitted or appended
JoinBarrier ==
    /\ [](AfterJoin =>
            /\ jobs = << >>
            /\ jobsClosed
            /\ \A w \in Workers : wstate[w] = "exited"
            /\ wg = 0
            /\ results = << >>
            /\ collector = "done"
            /\ Len(combinedContents) = Len(Readable))
    /\ [][AfterJoin => (results' = results
                        /\ Len(combinedContents') = Len(combinedContents))]_vars

\* the coordinator starts sorting what two workers produced
JoinBarrierWitness ==
    /\ pc = "sort"
    /\ Len(wstate) = 2
    /\ Len(combinedContents) >= 2

\* directory d lies under the i-th requested path, a directory, and the rule
\* set matches its path relative to that root
MatchedDirectory(i, d) ==
    /\ Exists(Abs(args.Paths[i]))
    /\ Entry(Abs(args.Paths[i])).isDir
    /\ d.isDir
    /\ (d.path = Abs(args.Paths[i]) \/ HasPrefix(d.path, Abs(args.Paths[i]) \o << "/" >>))
    /\ MatchesPath(gi, normalizePath(Rel(Abs(args.Paths[i]), d.path).path))

\* C12: directory pruning: beneath a directory whose relative path the rule
\* set matches, the traversal calls its callback on no entry and lists no
\* entry as regular or binary
DirectoryPruning ==
    \A i \in 1..Len(perPath) : \A d \in FS :
        MatchedDirectory(i, d) =>
            \A f \in Range(perPath[i].Visited) \cup Range(perPath[i].Regular)
                     \cup Range(perPath[i].Binary) :
                ~HasPrefix(f, d.path \o << "/" >>)

\* the directory build is matched and was pruned although the later negation
\* rule leaves build/keep.txt unmatched
DirectoryPruningWitness ==
    /\ Len(perPath) = 1
    /\ MatchedDirectory(1, Entry(D_build))
    /\ ~MatchesPath(gi, normalizePath(Rel(Abs(args.Paths[1]), F_keep).path))
    /\ D_build \in Range(perPath[1].Visited)
    /\ F_keep \notin Range(perPath[1].Regular)
    /\ F_a \in Range(perPath[1].Regular)

\* the run returned after collecting every requested path with nothing to
\* combine and no binary file to ask about
ReturnedEmpty ==
    /\ pc = "done"
    /\ Len(perPath) = Len(args.Paths)
    /\ allFilesToProcess = << >>
    /\ allBinaryFiles = << >>

\* C13: empty result: when no file survives filtering the run returns no
\* error and has written the output artifact
EmptyResultWritesArtifact == ReturnedEmpty => (err = "nil" /\ outFile.written)

\* C14: binary confirmation precedes output: with a non-empty binary list
\* the tree file and the output artifact are written only after the answer
\* yes; after the answer no the run has returned without error and has
\* written neither
BinaryConfirmationPrecedesOutput ==
    /\ (allBinaryFiles # << >> /\ (treeFile.written \/ outFile.written \/ wstate # << >>))
          => decision = "yes"
    /\ decision = "no"
          => (pc = "done" /\ err = "nil" /\ ~treeFile.written /\ ~outFile.written)

\* the user declined: the run is over although there were files to combine
BinaryConfirmationWitness ==
    /\ decision = "no"
    /\ pc = "done"
    /\ allBinaryFiles # << >>
    /\ allFilesToProcess # << >>
    /\ ~outFile.written

\* precedence of a rule source: global file, local file, command line
Rank(source) == IF source = "global" THEN 1 ELSE IF source = "local" THEN 2 ELSE 3

\* the matching rules that come from the highest source with a matching rule
TopMatchingRules ==
    { k \in MatchingRules : \A j \in MatchingRules : Rank(src[j]) <= Rank(src[k]) }

\* C15: load order is precedence order: every rule has a source, a rule of
\* the global file comes before every rule of the local file and both before
\* every command-line rule; so the verdict on a queried path is decided by a
\* rule of the highest source among the rules that match it
LoadOrderIsPrecedence ==
    /\ Len(src) = Len(gi)
    /\ \A i, j \in 1..Len(src) : i < j => Rank(src[i]) <= Rank(src[j])
    /\ (op = "match" /\ MatchingRules # {}) =>
          /\ matchedPattern \in TopMatchingRules
          /\ matched = ~gi[LastOf(TopMatchingRules)].Negate

\* a.log is matched by a rule of the global file and by a negated rule of the
\* local file, and the local rule decided
LoadOrderWitness ==
    /\ op = "match"
    /\ \E j, k \in MatchingRules :
          /\ src[j] = "global"
          /\ src[k] = "local"
          /\ ~gi[j].Negate
          /\ gi[k].Negate
    /\ ~matched

\* C16: rule ordinals are strictly increasing: the LineNo of a rule is
\* greater than the LineNo of every rule before it
RuleOrdinalsIncreasing ==
    \A i, j \in 1..Len(gi) : i < j => gi[i].LineNo < gi[j].LineNo

\* C17: record paths are unique: no file is queued twice and no two
\* collected records carry the same relative path
RecordPathsUnique ==
    /\ \A i, j \in 1..Len(allFilesToProcess) :
          i # j => allFilesToProcess[i] # allFilesToProcess[j]
    /\ \A i, j \in 1..Len(combinedContents) :
          i # j => combinedContents[i].Path # combinedContents[j].Path

\* the lines among ls that yield a pattern, in order
RECURSIVE CompiledLines(_)
CompiledLines(ls) ==
    IF ls = << >> THEN << >>
    ELSE (IF parsePatternLine(ls[1]).ok THEN << ls[1] >> ELSE << >>)
         \o CompiledLines(Tail(ls))

\* one rule per given line, in order, with the pattern and the negation the
\* line compiles to
RulesOfLines(rules, ls) ==
    /\ Len(rules) = Len(ls)
    /\ \A k \in 1..Len(ls) :
          /\ rules[k].Line = ls[k]
          /\ rules[k].Pattern = parsePatternLine(ls[k]).Pattern
          /\ rules[k].Negate = parsePatternLine(ls[k]).Negate

\* C18: a pattern line that fails to compile is dropped and nothing else: a
\* load or compile call leaves the rules it found unchanged and appends, in
\* order, exactly one rule for each of its lines that yields a pattern,
\* whether or not a line before it failed; the call reports no error
CompileFailureDropped ==
    [][op' \in {"load", "compile"} =>
          /\ Len(gi') >= Len(gi)
          /\ SubSeq(gi', 1, Len(gi)) = gi
          /\ RulesOfLines(SubSeq(gi', Len(gi) + 1, Len(gi')), CompiledLines(lines'))
          /\ err' = "nil"]_vars

\* a call was handed the line a\ , whose expression does not compile, and
\* then *.log; the earlier rule is still there and *.log became the last rule
CompileFailureWitness ==
    /\ op = "compile"
    /\ lines = << L_bad, L_starLog >>
    /\ Len(gi) = 2
    /\ gi[1].Line # L_starLog
    /\ gi[2].Line = L_starLog

\* entry p lies beneath directory d
Beneath(p, d) == HasPrefix(p, d \o << "/" >>)

\* the list ("Regular", "Binary" or "none") the traversal of root puts file e
\* in when no call fails: "none" beneath a matched directory, for a matched
\* file and for an oversized text file
ClassOf(e, root) ==
    IF \E d \in FS : /\ d.isDir
                     /\ (d.path = root \/ Beneath(d.path, root))
                     /\ Beneath(e.path, d.path)
                     /\ MatchesPath(gi, normalizePath(Rel(root, d.path).path))
    THEN "none"
    ELSE IF MatchesPath(gi, normalizePath(Rel(root, e.path).path)) THEN "none"
    ELSE IF isBinaryFile(e.data) THEN "Binary"
    ELSE IF Size(e) > args.MaxFileSizeKB * 1024 THEN "none"
    ELSE "Regular"

\* the list the i-th collection put file e in
ListOf(e, i) ==
    IF e.path \in Range(perPath[i].Regular) THEN "Regular"
    ELSE IF e.path \in Range(perPath[i].Binary) THEN "Binary"
    ELSE "none"

\* a call on file e itself fails
FailsItself(e) == Fails(e.path, "sniff") \/ Fails(e.path, "info")

\* file e lies beneath a directory that cannot be read
BeneathUnreadable(e) ==
    \E d \in FS : d.isDir /\ Fails(d.path, "readdir") /\ Beneath(e.path, d.path)

\* the i-th requested path is a directory and file e lies beneath it
TraversedFile(e, i) ==
    /\ Exists(Abs(args.Paths[i]))
    /\ Entry(Abs(args.Paths[i])).isDir
    /\ ~e.isDir
    /\ Beneath(e.path, Abs(args.Paths[i]))

\* C19 as stated: when the requested paths have been collected, an error on
\* one entry has affected that entry only: every other entry is in the list
\* it would be in without the error
TraversalErrorsAreLocal ==
    pc = "confirm" => \A i \in 1..Len(perPath) : \A e \in FS :
        (TraversedFile(e, i) /\ ~FailsItself(e)) =>
            ListOf(e, i) = ClassOf(e, Abs(args.Paths[i]))

\* C19, amended: when the requested paths have been collected, a file on
\* which the sniff failed is in neither list, and every file on which no call
\* failed and which is not beneath a directory that could not be read is in
\* the list it would be in without the error
TraversalErrorsSkipTheEntry ==
    pc = "confirm" => \A i \in 1..Len(perPath) : \A e \in FS :
        TraversedFile(e, i) =>
            /\ Fails(e.path, "sniff") => ListOf(e, i) = "none"
            /\ (~FailsItself(e) /\ ~BeneathUnreadable(e)) =>
                  ListOf(e, i) = ClassOf(e, Abs(args.Paths[i]))

\* the sniff of a.txt failed: a.txt is in neither list, the files after it in
\* the walk are in their lists
TraversalErrorsWitness ==
    /\ pc = "confirm"
    /\ Len(perPath) = 1
    /\ TraversedFile(Entry(F_a), 1)
    /\ Fails(F_a, "sniff")
    /\ ClassOf(Entry(F_a), Abs(args.Paths[1])) = "Regular"
    /\ ListOf(Entry(F_a), 1) = "none"
    /\ ListOf(Entry(F_b), 1) = "Binary"
    /\ ListOf(Entry(F_keep), 1) = "Regular"

\* the configuration cannot be used: the ignore file exists and cannot be
\* read, or no file can be made at the output destination
ConfigurationError == ignoreFile.state = "unreadable" \/ outputDir # "ok"

\* C20: configuration errors are fatal before any traversal: with such an
\* error no requested path is traversed and no worker is started, and the run
\* ends with an error; an ignore file that does not exist is no error and
\* gives no rule
ConfigurationErrorsFatalEarly ==
    /\ ConfigurationError =>
          /\ perPath = << >>
          /\ wstate = << >>
          /\ pc = "done" => err # "nil"
    /\ (ignoreFile.state = "absent" /\ outputDir = "ok" /\ pc # "load") =>
          /\ pc = "collect" => err = "nil"
          /\ \A k \in 1..Len(src) : src[k] = "cli"

\* the bytes isBinaryFile looks at: the first min(512, length) bytes
Sniffed == SubSeq(fileData, 1, IF Len(fileData) < 512 THEN Len(fileData) ELSE 512)

\* the bytes of Sniffed outside 32..126, \n, \r and \t
Outside == { k \in 1..Len(Sniffed) : Sniffed[k] \notin (32..126) \cup {10, 13, 9} }

\* C21: isBinaryFile equals the reference classifier: with S the first
\* min(512, length) bytes, binary if S holds a NUL byte; otherwise text if S
\* is empty; otherwise binary exactly when the bytes of S outside
\* {32..126, \n, \r, \t} are strictly more than 30% of S
BinaryClassifierContract ==
    op = "sniff" =>
        isBinary = IF \E k \in 1..Len(Sniffed) : Sniffed[k] = 0 THEN TRUE
                   ELSE IF Len(Sniffed) = 0 THEN FALSE
                   ELSE 10 * Cardinality(Outside) > 3 * Len(Sniffed)

\* a file of ten bytes without NUL, three of them non-printable, was
\* classified as text
BinaryClassifierWitness ==
    /\ op = "sniff"
    /\ Len(fileData) = 10
    /\ Cardinality(Outside) = 3
    /\ \A k \in 1..Len(fileData) : fileData[k] # 0
    /\ ~isBinary

\* the verdict and the deciding rule as a function of a rule sequence and a
\* normalized path, and of nothing else
Classification(rules, normalizedPath) ==
    LET M == { k \in 1..Len(rules) : MatchString(rules[k].Pattern, normalizedPath) }
        last == CHOOSE k \in M : \A j \in M : j <= k
    IN  IF M = {} THEN [matched |-> FALSE, matchedPattern |-> 0]
        ELSE [matched |-> ~rules[last].Negate, matchedPattern |-> last]

RECURSIVE PatternLinesOf(_)
PatternLinesOf(ls) ==
    IF ls = << >> THEN << >>
    ELSE IF TrimSpace(ls[1]) = << >> \/ HasPrefix(ls[1], << "#" >>)
         THEN PatternLinesOf(Tail(ls))
         ELSE << ls[1] >> \o PatternLinesOf(Tail(ls))

\* C23: loading a textual ignore source appends exactly one rule for each
\* line that is neither blank nor a comment, in line order, and nothing for
\* the other lines; a rule is negated exactly when its pattern starts with "!"
OneRulePerPatternLine ==
    op = "load" =>
        /\ Patterns = PatternLinesOf(lines)
        /\ \A k \in 1..Len(gi) : gi[k].Negate = HasPrefix(TrimSpace(gi[k].Line), << "!" >>)

\* the worker pool is running: from the start of the workers to "<-done"
PoolRunning == pc \in {"distribute", "wait", "join"}

\* some goroutine of the pool can take a step
SomeStepEnabled ==
    \/ ENABLED SendJob
    \/ ENABLED CloseJobs
    \/ ENABLED (\E w \in Workers : WorkerTake(w))
    \/ ENABLED (\E w \in Workers : WorkerEmit(w))
    \/ ENABLED (\E w \in Workers : WorkerFail(w))
    \/ ENABLED (\E w \in Workers : WorkerExit(w))
    \/ ENABLED CollectorReceive
    \/ ENABLED WaitWorkers
    \/ ENABLED JoinCollector

\* C24: the pipeline runs to completion: once the workers are started, under
\* fair scheduling every worker exits and the coordinator reaches the sort;
\* while the pool runs some step of it is always possible (no deadlock), and
\* a worker holding a record to send always finds room in the results channel
PipelineCompletes ==
    /\ PoolRunning ~> (pc = "sort" /\ \A w \in Workers : wstate[w] = "exited")
    /\ [](PoolRunning => SomeStepEnabled)
    /\ [](\A w \in Workers :
            (wstate[w] = "busy" /\ ProcessSingleFile(wfile[w], parentDirOfRun).ok)
                => Len(results) < Capacity)

\* the coordinator reached the sort after two workers shared the queue and a
\* read failed
PipelineCompletesWitness ==
    /\ pc = "sort"
    /\ Len(wstate) >= 2
    /\ \A w \in Workers : wstate[w] = "exited"
    /\ Len(combinedContents) < Len(allFilesToProcess)
    /\ combinedContents # << >>

\* number of positions of seq that hold x
Occurrences(seq, x) == Cardinality({ k \in 1..Len(seq) : seq[k] = x })

\* number of records of seq made from file f
RecordsOf(seq, f) ==
    Cardinality({ k \in 1..Len(seq) : seq[k].Path = relativePathOf(f, parentDirOfRun) })

\* the files put on the job queue so far
Queued ==
    IF pc = "start" THEN << >>
    ELSE IF pc = "distribute" THEN SubSeq(allFilesToProcess, 1, idx - 1)
    ELSE allFilesToProcess

\* number of workers holding file f
HeldBy(f) == Cardinality({ w \in Workers : wstate[w] = "busy" /\ wfile[w] = f })

\* C25: exactly-once processing: at every moment each queued occurrence of
\* a readable file is either still on the job queue, held by one worker, or
\* has become one record (in the results channel or collected), and an
\* unreadable file never yields a record; so once the collector is done the
\* number of collected records is the number of queued files minus the
\* number of read failures
ExactlyOnce ==
    /\ \A f \in Range(allFilesToProcess) :
          IF f \in unreadable
          THEN /\ RecordsOf(results, f) + RecordsOf(combinedContents, f) = 0
               /\ Occurrences(jobs, f) + HeldBy(f) <= Occurrences(Queued, f)
          ELSE Occurrences(jobs, f) + HeldBy(f) + RecordsOf(results, f)
                   + RecordsOf(combinedContents, f) = Occurrences(Queued, f)
    /\ collector = "done" =>
          Len(combinedContents) =
              Len(allFilesToProcess)
                  - Cardinality({ k \in 1..Len(allFilesToProcess) :
                                    allFilesToProcess[k] \in unreadable })

\* three files were queued, one of them twice, the read of one failed, and two
\* workers left two records
ExactlyOnceWitness ==
    /\ collector = "done"
    /\ Len(wstate) = 2
    /\ Len(allFilesToProcess) = 3
    /\ Cardinality(Range(allFilesToProcess)) = 2
    /\ Cardinality(unreadable \cap Range(allFilesToProcess)) = 1
    /\ Len(combinedContents) = 2

\* C26: check order: content sniffing is the last check, after the ignore
\* rules, the extension table and the size ceiling, in the single-file check
\* and in the traversal alike; hence no file that a rule matches, that has a
\* known binary extension or that exceeds the size ceiling is routed to the
\* binary list
SniffingIsLastCheck ==
    \A i \in 1..Len(perPath) :
        \A f \in Range(perPath[i].Binary) :
            /\ ~MatchesPath(gi, ClassifiedPath(i, f))
            /\ ~isCommonBinaryExtension(f)
            /\ Size(Entry(f)) <= args.MaxFileSizeKB * 1024

\* sub occurs in s
Contains(s, sub) == \E k \in 0..(Len(s) - Len(sub)) : SubSeq(s, k + 1, k + Len(sub)) = sub

\* C27: the rule compiled from "foo/**" matches foo and every path beneath
\* foo, whatever the length of the names, and its expression still holds the
\* fragment "(/.*)?" that the double star was rewritten to
TrailingDoubleStarMatchesBelow ==
    (op = "match" /\ Patterns = << L_fooDoubleStar >>) =>
        /\ Contains(gi[1].Pattern, << "(", "/", ".", "*", ")", "?" >>)
        /\ (path = P_foo \/ HasPrefix(path, P_foo \o << "/" >>)) => matched


\* C28: output order: the artifact holds the rendered tree first and after
\* it the collected records, in ascending case-sensitive lexicographic order
\* of relative path: of two adjacent records the first's path is not after
\* the second's
OutputOrder ==
    ArtifactWritten =>
        /\ outFile.tree = treeOf(args.Paths, gi)
        /\ outFile.tree # << >>
        /\ outFile.sections = [k \in 1..Len(combinedContents) |-> combinedContents[k].Content]
        /\ \A k \in 1..(Len(combinedContents) - 1) :
              \/ combinedContents[k].Path = combinedContents[k + 1].Path
              \/ Less(combinedContents[k].Path, combinedContents[k + 1].Path)
        /\ \A k \in 1..Len(combinedContents) :
              combinedContents[k].Path = combinedContents[k].Content.Source

\* the artifact of a run of several workers, with a tree and records of
\* different paths
OutputOrderWitness ==
    /\ ArtifactWritten
    /\ outFile.tree # << >>
    /\ \E k \in 1..(Len(outFile.sections) - 1) :
          Less(outFile.sections[k].Source, outFile.sections[k + 1].Source)
    /\ Len(wstate) >= 2

\* C29: the rule set is read-only after loading: no step after the load,
\* be it the traversal, the single-file check, the tree rendering or a
\* worker's processing, changes the rule sequence (length, order, matchers,
\* negation flags), and while the rules are being loaded no worker exists
\* and no file is queued
RuleSetReadOnly ==
    /\ [][pc # "load" => gi' = gi]_vars
    /\ [](pc = "load" => (wstate = << >> /\ jobs = << >> /\ gi = << >>))
    /\ [](wstate # << >> => pc \notin {"load", "collect", "confirm", "start"})

\* a worker processes a file under a loaded rule set of several rules, one
\* of them from the command line
RuleSetReadOnlyWitness ==
    /\ \E w \in Workers : wstate[w] = "busy"
    /\ Len(gi) >= 2
    /\ \E k \in 1..Len(src) : src[k] = "cli"

\* line k of a rendered listing is followed by a rendered entry of the same
\* directory
HasLaterSibling(ls, k) ==
    \E j \in (k + 1)..Len(ls) : Dir(ls[j].rel) = Dir(ls[k].rel)

\* C30: tree connectors follow the rendered entries: in every directory
\* listing of the written tree the last rendered entry has the elbow
\* connector and the blank continuation for its subtree, and every earlier
\* rendered entry the tee connector and the bar continuation, also when the
\* entries sorting last in the directory are ignored
ConnectorsFollowRenderedEntries ==
    treeFile.written =>
        \A r \in 1..Len(treeFile.tree) :
            LET ls == treeFile.tree[r].lines
            IN  \A k \in 1..Len(ls) :
                    /\ ls[k].connector = (IF HasLaterSibling(ls, k) THEN "tee" ELSE "elbow")
                    /\ \A j \in 1..Len(ls) :
                          Dir(ls[j].rel) = ls[k].rel =>
                              ls[j].prefix = Append(ls[k].prefix,
                                                    IF HasLaterSibling(ls, k) THEN "pipe"
                                                    ELSE "blank")
====
